---- MODULE Spec2Model ----
(***************************************************************************)
(* A model of wadd-rust: the WAD directory scan and map assembly           *)
(* (decode_maps, src/src/wadd.rs and its copy in src/src/main.rs) and the  *)
(* sector boundary reconstruction of extract_map (src/src/main.rs).        *)
(*                                                                         *)
(* Indices stored in records (vertex_begin, sidedef_right, sector, ...)    *)
(* keep Rust's 0-based values; TLA+ sequences are 1-based, so every access *)
(* adds one.                                                               *)
(***************************************************************************)
EXTENDS Integers, Sequences, FiniteSets, TLC

VARIABLES
    pc,             \* position of the program: in decode_maps or in extract_map
    map,            \* extract_map: the MapData found by name (read-only)
    sectors,        \* extract_map: Vec<RenderableSector>
    sector_id,      \* extract_map: the counter of the "for sector in sectors" loop
    pending_lines,  \* extract_map: the working list of the sector being stitched
    to_v,           \* extract_map: the current endpoint of the loop being built
    data,           \* extract_map: the svg path Data of the sector being stitched
    doc,            \* extract_map: the path data added to the document, per sector
    strokes,        \* extract_map: the Line elements added to the document
    warnings,       \* extract_map: the WARNING lines printed
    directory,      \* decode_maps: the directory (read-only)
    next_i,         \* decode_maps: the next value of the range 0..directory.len()
    i,              \* decode_maps: the loop variable "mut i"
    map_name,       \* decode_maps: the name of the marker whose run is consumed
    lumps,          \* decode_maps: the lump set of the run being consumed
    map_lumps,      \* decode_maps: HashMap<String, HashMap<String, DirectoryEntry>>
    maps,           \* decode_maps: the Vec<MapData> returned
    panic,          \* the panic that ended the program, or NoPanic
    file,           \* the bytes of the WAD file (read-only)
    file_pos,       \* the cursor of the open File
    buf,            \* header_buf, entry_buf or the record buffer of a lump decoder
    header,         \* decode_header: (wad_type, directory_offset, num_directory_entries)
    lump_entry,     \* a lump decoder: its argument "entry", the lump being decoded
    records,        \* a lump decoder: the records collected so far
    params,         \* handle_command: the parameters that follow the command
    map_iter,       \* handle_command: the maps taken so far by "for map in &wad.maps"
    saved           \* the names of the maps whose files extract_map has written

vars == <<pc, map, sectors, sector_id, pending_lines, to_v, data, doc, strokes,
          warnings, directory, next_i, i, map_name, lumps, map_lumps, maps, panic,
          file, file_pos, buf, header, lump_entry, records, params, map_iter, saved>>

fileVars == <<file, file_pos, buf, header, lump_entry, records>>

commandVars == <<params, map_iter, saved>>

extractVars == <<map, sectors, sector_id, pending_lines, to_v, data, doc, strokes,
                 warnings>>

decodeVars == <<directory, next_i, i, map_name, lumps, map_lumps, maps>>

-----------------------------------------------------------------------------
(* Helpers on sequences and integers.                                      *)

\* Mutant of RemoveAt: nothing is removed.
RemoveNothing(s, n) == s

\* Mutant of RemoveAt: the first element is removed whatever the index.
RemoveFirst(s, n) == Tail(s)

\* Vec::remove(index): the sequence without its element at (1-based) position n.
RemoveAt(s, n) == [j \in 1..(Len(s) - 1) |-> IF j < n THEN s[j] ELSE s[j + 1]]

\* i16 arithmetic as the release build computes it (two's complement wrap-around).
Wrap16(n) == ((n + 32768) % 65536) - 32768

SetMin(S) == CHOOSE a \in S : \A b \in S : a <= b

SetMax(S) == CHOOSE a \in S : \A b \in S : a >= b

Range(s) == {s[n] : n \in 1..Len(s)}

-----------------------------------------------------------------------------
(* extract_map: geometry of a map.                                         *)

Vertex(px, py) == [x |-> px, y |-> py]

\* "lines": the two vertexes of every linedef of the map.
Lines(m) ==
    [n \in 1..Len(m.linedefs) |->
        <<m.vertexes[m.linedefs[n].vertex_begin + 1],
          m.vertexes[m.linedefs[n].vertex_end + 1]>>]

min_x(m) == SetMin({SetMin({l[1].x, l[2].x}) : l \in Range(Lines(m))})

max_x(m) == SetMax({SetMax({l[1].x, l[2].x}) : l \in Range(Lines(m))})

min_y(m) == SetMin({SetMin({l[1].y, l[2].y}) : l \in Range(Lines(m))})

max_y(m) == SetMax({SetMax({l[1].y, l[2].y}) : l \in Range(Lines(m))})

offset_x(m) == Wrap16(0 - min_x(m))

offset_y(m) == Wrap16(0 - min_y(m))

\* "height" and "width" of the viewBox.
height(m) == Wrap16(max_y(m) - min_y(m))

width(m) == Wrap16(max_x(m) - min_x(m))

\* The result of an i16 operation does not fit an i16.
Overflows16(n) == n < -32768 \/ n > 32767

\* Lines 83-86: one of the four subtractions overflows.
ExtentOverflows(m) ==
    \/ Overflows16(0 - min_x(m))
    \/ Overflows16(0 - min_y(m))
    \/ Overflows16(max_y(m) - min_y(m))
    \/ Overflows16(max_x(m) - min_x(m))

\* "Vertexes are stored upside down": y' = max_y - (y - min_y), x unchanged.
Flip(m, v) == Vertex(v.x, Wrap16(max_y(m) - Wrap16(v.y - min_y(m))))

\* The coordinates given to move_to / line_to for a (flipped) vertex.
Point(m, v) == <<Wrap16(v.x + offset_x(m)), Wrap16(v.y + offset_y(m))>>

\* Mutant of InSector: the left side is never looked at.
InSectorRightOnly(m, linedef, sector_index) ==
    /\ linedef.sidedef_right >= 0
    /\ m.sidedefs[linedef.sidedef_right + 1].sector = sector_index

\* The filter closure: does the linedef have a side in sector sector_index?
InSector(m, linedef, sector_index) ==
    \/ /\ linedef.sidedef_right >= 0
       /\ m.sidedefs[linedef.sidedef_right + 1].sector = sector_index
    \/ /\ linedef.sidedef_left >= 0
       /\ m.sidedefs[linedef.sidedef_left + 1].sector = sector_index

\* "sector_lines": the linedefs of the sector, in declaration order.
SectorLines(m, sector_index) ==
    SelectSeq(m.linedefs, LAMBDA linedef : InSector(m, linedef, sector_index))

\* "vertex_lines": (v1, v2, linedef) with both vertexes flipped.
VertexLines(m, sector_index) ==
    LET sl == SectorLines(m, sector_index)
    IN  [n \in 1..Len(sl) |->
            [v1 |-> Flip(m, m.vertexes[sl[n].vertex_begin + 1]),
             v2 |-> Flip(m, m.vertexes[sl[n].vertex_end + 1]),
             linedef |-> sl[n]]]

RenderableSector(m, sector_index) ==
    [linedefs |-> SectorLines(m, sector_index),
     lines    |-> VertexLines(m, sector_index),
     sector   |-> m.sectors[sector_index + 1]]

\* vec[index as usize] panics: the index is past the end of a vector of len
\* elements, or negative (the cast makes it larger than any length).
IndexPanics(index, len) == index < 0 \/ index >= len

\* Lines 52-57: map.vertexes[..] panics for a linedef of the map.
VertexIndexPanics(m) ==
    \E n \in 1..Len(m.linedefs) :
        \/ IndexPanics(m.linedefs[n].vertex_begin, Len(m.vertexes))
        \/ IndexPanics(m.linedefs[n].vertex_end, Len(m.vertexes))

\* Lines 100-114: the filter closure panics on map.sidedefs[..].  The left
\* side is looked up only when the right side did not return true.
FilterPanics(m, linedef, sector_index) ==
    IF linedef.sidedef_right >= 0
         /\ IndexPanics(linedef.sidedef_right, Len(m.sidedefs)) THEN TRUE
    ELSE IF linedef.sidedef_right >= 0
              /\ m.sidedefs[linedef.sidedef_right + 1].sector = sector_index THEN FALSE
    ELSE linedef.sidedef_left >= 0
           /\ IndexPanics(linedef.sidedef_left, Len(m.sidedefs))

\* Lines 95-116: the filter runs for every sector on every linedef.
SideIndexPanics(m) ==
    \E sector_index \in 0..(Len(m.sectors) - 1) :
        \E n \in 1..Len(m.linedefs) : FilterPanics(m, m.linedefs[n], sector_index)

-----------------------------------------------------------------------------
(* extract_map: loop stitching.                                            *)

\* Mutant of Position: the last pending line with an endpoint equal to v.
PositionLast(lines, v) ==
    LET hits == {n \in 1..Len(lines) : lines[n].v1 = v \/ lines[n].v2 = v}
    IN  IF hits = {} THEN 0 ELSE SetMax(hits)

\* Mutant of Position: the first pending line matches, shared endpoint or not.
PositionAny(lines, v) == IF lines = <<>> THEN 0 ELSE 1

\* pending_lines.iter().position(..): the first (1-based) line with an endpoint
\* equal to v, or 0 for None.
Position(lines, v) ==
    LET hits == {n \in 1..Len(lines) : lines[n].v1 = v \/ lines[n].v2 = v}
    IN  IF hits = {} THEN 0 ELSE SetMin(hits)

\* Mutant of OtherEnd: the stored direction is followed, never swapped.
OtherEndStored(line, v) == line.v2

\* Mutant of OtherEnd: the first stored vertex, on whichever end the line was met.
OtherEndFirst(line, v) == line.v1

\* The new to_v after a removed line is joined at the current to_v.
OtherEnd(line, v) == IF line.v2 = v THEN line.v1 ELSE line.v2

MoveTo(p) == [op |-> "M", p |-> p]

LineTo(p) == [op |-> "L", p |-> p]

Close == [op |-> "Z", p |-> <<>>]

\* Lines 52-141: the lines, the extent and the renderable sectors of the map.
BuildSectors ==
    /\ pc = "extract"
    /\ ~VertexIndexPanics(map)
    /\ Len(Lines(map)) > 0
    /\ ~SideIndexPanics(map)
    /\ sectors' = [s \in 1..Len(map.sectors) |-> RenderableSector(map, s - 1)]
    /\ pc' = "for_sector"
    /\ UNCHANGED <<map, sector_id, pending_lines, to_v, data, doc, strokes,
                   warnings, panic>>
    /\ UNCHANGED decodeVars
    /\ UNCHANGED fileVars
    /\ UNCHANGED commandVars

\* Lines 149-160: the next sector of "for sector in sectors.iter()".
NextSector ==
    /\ pc = "for_sector"
    /\ sector_id + 1 < Len(sectors)
    /\ sector_id' = sector_id + 1
    /\ data' = <<>>
    /\ pending_lines' = sectors[sector_id' + 1].lines
    /\ pc' = "while_pending"
    /\ UNCHANGED <<map, sectors, to_v, doc, strokes, warnings, panic>>
    /\ UNCHANGED decodeVars
    /\ UNCHANGED fileVars
    /\ UNCHANGED commandVars

\* Mutant of StartLoop: the line is taken from the sector's own list as well,
\* as if pending_lines were the list and not a clone of it.
StartLoopInPlace ==
    /\ pc = "while_pending"
    /\ pending_lines # <<>>
    /\ warnings' = IF Len(pending_lines) < 2
                   THEN Append(warnings, [sector |-> sector_id,
                                          left |-> Len(pending_lines)])
                   ELSE warnings
    /\ pending_lines' = RemoveAt(pending_lines, 1)
    /\ sectors' = [sectors EXCEPT ![sector_id + 1].lines = RemoveAt(pending_lines, 1)]
    /\ to_v' = pending_lines[1].v2
    /\ data' = data \o <<MoveTo(Point(map, pending_lines[1].v1)),
                         LineTo(Point(map, pending_lines[1].v2))>>
    /\ pc' = "while_position"
    /\ UNCHANGED <<map, sector_id, doc, strokes, panic>>
    /\ UNCHANGED decodeVars
    /\ UNCHANGED fileVars
    /\ UNCHANGED commandVars

\* Lines 161-180: a new loop starts with the first pending line.
StartLoop ==
    /\ pc = "while_pending"
    /\ pending_lines # <<>>
    /\ warnings' = IF Len(pending_lines) < 2
                   THEN Append(warnings, [sector |-> sector_id,
                                          left |-> Len(pending_lines)])
                   ELSE warnings
    /\ pending_lines' = RemoveAt(pending_lines, 1)
    /\ to_v' = pending_lines[1].v2
    /\ data' = data \o <<MoveTo(Point(map, pending_lines[1].v1)),
                         LineTo(Point(map, pending_lines[1].v2))>>
    /\ pc' = "while_position"
    /\ UNCHANGED <<map, sectors, sector_id, doc, strokes, panic>>
    /\ UNCHANGED decodeVars
    /\ UNCHANGED fileVars
    /\ UNCHANGED commandVars

\* Lines 182-197: the first pending line that shares to_v continues the loop.
ExtendLoop ==
    /\ pc = "while_position"
    /\ Position(pending_lines, to_v) # 0
    /\ LET next_line_idx == Position(pending_lines, to_v)
       IN  /\ pending_lines' = RemoveAt(pending_lines, next_line_idx)
           /\ to_v' = OtherEnd(pending_lines[next_line_idx], to_v)
           /\ data' = Append(data, LineTo(Point(map, to_v')))
    /\ UNCHANGED <<pc, map, sectors, sector_id, doc, strokes, warnings, panic>>
    /\ UNCHANGED decodeVars
    /\ UNCHANGED fileVars
    /\ UNCHANGED commandVars

\* Mutant of CloseLoop: only a loop that came back to its start is closed.
CloseLoopIfReturned ==
    /\ pc = "while_position"
    /\ Position(pending_lines, to_v) = 0
    /\ data' = IF \E n \in 1..Len(data) :
                     /\ data[n] = MoveTo(Point(map, to_v))
                     /\ \A q \in (n + 1)..Len(data) : data[q].op = "L"
               THEN Append(data, Close)
               ELSE data
    /\ pc' = "while_pending"
    /\ UNCHANGED <<map, sectors, sector_id, pending_lines, to_v, doc, strokes,
                   warnings, panic>>
    /\ UNCHANGED decodeVars
    /\ UNCHANGED fileVars
    /\ UNCHANGED commandVars

\* Line 198: no pending line shares to_v; the path is closed.
CloseLoop ==
    /\ pc = "while_position"
    /\ Position(pending_lines, to_v) = 0
    /\ data' = Append(data, Close)
    /\ pc' = "while_pending"
    /\ UNCHANGED <<map, sectors, sector_id, pending_lines, to_v, doc, strokes,
                   warnings, panic>>
    /\ UNCHANGED decodeVars
    /\ UNCHANGED fileVars
    /\ UNCHANGED commandVars

\* Lines 201-212: the path of the sector is added to the document.
AddPath ==
    /\ pc = "while_pending"
    /\ pending_lines = <<>>
    /\ doc' = Append(doc, data)
    /\ pc' = "for_sector"
    /\ UNCHANGED <<map, sectors, sector_id, pending_lines, to_v, data, strokes,
                   warnings, panic>>
    /\ UNCHANGED decodeVars
    /\ UNCHANGED fileVars
    /\ UNCHANGED commandVars

\* Is the line drawn as one-sided (red, width 2)?
OneSided(linedef) == linedef.sidedef_left < 0 \/ linedef.sidedef_right < 0

\* The Line elements of "Draw sector lines", sector after sector.
RECURSIVE SectorStrokes(_, _)
SectorStrokes(m, ss) ==
    IF ss = <<>> THEN <<>>
    ELSE [n \in 1..Len(ss[1].lines) |->
             [p1 |-> Point(m, ss[1].lines[n].v1),
              p2 |-> Point(m, ss[1].lines[n].v2),
              one_sided |-> OneSided(ss[1].lines[n].linedef)]]
         \o SectorStrokes(m, Tail(ss))

\* Lines 215-270: the strokes are drawn and the document is saved.
DrawLines ==
    /\ pc = "for_sector"
    /\ sector_id + 1 >= Len(sectors)
    /\ Len(sectors) > 0
    /\ strokes' = SectorStrokes(map, sectors)
    /\ saved' = Append(saved, map.name)
    /\ pc' = "saved"
    /\ UNCHANGED <<map, sectors, sector_id, pending_lines, to_v, data, doc,
                   warnings, panic>>
    /\ UNCHANGED decodeVars
    /\ UNCHANGED fileVars
    /\ UNCHANGED <<params, map_iter>>

\* Lines 52-57 and 95-116: an index past the end of map.vertexes or of
\* map.sidedefs ends the program.
IndexPanic ==
    /\ pc = "extract"
    /\ IF VertexIndexPanics(map)
       THEN panic' = [kind |-> "index", at |-> "map.vertexes"]
       ELSE /\ Len(Lines(map)) > 0
            /\ SideIndexPanics(map)
            /\ panic' = [kind |-> "index", at |-> "map.sidedefs"]
    /\ pc' = "panicked"
    /\ UNCHANGED extractVars
    /\ UNCHANGED decodeVars
    /\ UNCHANGED fileVars
    /\ UNCHANGED commandVars

\* Lines 83-86 in a build with overflow checks (the dev profile): "attempt to
\* subtract with overflow".  A build without them (the release profile) wraps
\* and goes on with BuildSectors; when these four subtractions do not
\* overflow, no later operation on the coordinates does.
OverflowPanic ==
    /\ pc = "extract"
    /\ ~VertexIndexPanics(map)
    /\ Len(Lines(map)) > 0
    /\ ExtentOverflows(map)
    /\ panic' = [kind |-> "overflow", at |-> "extract_map"]
    /\ pc' = "panicked"
    /\ UNCHANGED extractVars
    /\ UNCHANGED decodeVars
    /\ UNCHANGED fileVars
    /\ UNCHANGED commandVars

\* Line 59: assert!(lines.len() > 0) fails for a map without linedefs.
LinesAssertPanic ==
    /\ pc = "extract"
    /\ ~VertexIndexPanics(map)
    /\ Len(Lines(map)) = 0
    /\ panic' = [kind |-> "assert", at |-> "lines.len() > 0"]
    /\ pc' = "panicked"
    /\ UNCHANGED extractVars
    /\ UNCHANGED decodeVars
    /\ UNCHANGED fileVars
    /\ UNCHANGED commandVars

\* Lines 215-235 for a map without sectors: no stroke is drawn, and
\* sectors[0] is an index past the end of the empty vector; nothing is saved.
SectorsIndexPanic ==
    /\ pc = "for_sector"
    /\ sector_id + 1 >= Len(sectors)
    /\ Len(sectors) = 0
    /\ strokes' = SectorStrokes(map, sectors)
    /\ panic' = [kind |-> "index", at |-> "sectors"]
    /\ pc' = "panicked"
    /\ UNCHANGED <<map, sectors, sector_id, pending_lines, to_v, data, doc,
                   warnings>>
    /\ UNCHANGED decodeVars
    /\ UNCHANGED fileVars
    /\ UNCHANGED commandVars

NextExtract ==
    \/ BuildSectors
    \/ NextSector
    \/ StartLoop
    \/ ExtendLoop
    \/ CloseLoop
    \/ AddPath
    \/ DrawLines

-----------------------------------------------------------------------------
(* The loops of a path: each move_to starts one, each line_to extends it,  *)
(* close marks it closed.                                                  *)

RECURSIVE LoopsOf(_)
LoopsOf(d) ==
    IF d = <<>> THEN <<>>
    ELSE LET rest == LoopsOf(SubSeq(d, 1, Len(d) - 1))
             cmd  == d[Len(d)]
         IN  IF cmd.op = "M"
             THEN Append(rest, [points |-> <<cmd.p>>, closed |-> FALSE])
             ELSE IF cmd.op = "L"
             THEN [rest EXCEPT ![Len(rest)].points = Append(@, cmd.p)]
             ELSE [rest EXCEPT ![Len(rest)].closed = TRUE]

-----------------------------------------------------------------------------
(* Names: a String is modelled by the sequence of its bytes (ASCII codes), *)
(* and String's Ord by the lexicographic order of the byte sequences.      *)

BLOCKMAP == <<66, 76, 79, 67, 75, 77, 65, 80>>

LINEDEFS == <<76, 73, 78, 69, 68, 69, 70, 83>>

NODES == <<78, 79, 68, 69, 83>>

REJECT == <<82, 69, 74, 69, 67, 84>>

SCRIPTS == <<83, 67, 82, 73, 80, 84, 83>>

SECTORS == <<83, 69, 67, 84, 79, 82, 83>>

SEGS == <<83, 69, 71, 83>>

SIDEDEFS == <<83, 73, 68, 69, 68, 69, 70, 83>>

SSECTORS == <<83, 83, 69, 67, 84, 79, 82, 83>>

THINGS == <<84, 72, 73, 78, 71, 83>>

VERTEXES == <<86, 69, 82, 84, 69, 88, 69, 83>>

E1M1 == <<69, 49, 77, 49>>

MAP01 == <<77, 65, 80, 48, 49>>

TEXTURE1 == <<84, 69, 88, 84, 85, 82, 69, 49>>

\* The contents of the vector map_lump_names.
map_lump_names ==
    {BLOCKMAP, LINEDEFS, NODES, REJECT, SCRIPTS, SECTORS, SEGS, SIDEDEFS, SSECTORS,
     THINGS, VERTEXES}

\* a < b for Strings.
StrLess(a, b) ==
    \/ \E n \in 1..Len(a) :
          /\ n <= Len(b)
          /\ \A q \in 1..(n - 1) : a[q] = b[q]
          /\ a[n] < b[n]
    \/ /\ Len(a) < Len(b)
       /\ \A q \in 1..Len(a) : a[q] = b[q]

-----------------------------------------------------------------------------
(* Bytes, the open File and the decoding of text.  A byte is a number in   *)
(* 0..255; a buffer and the file are sequences of bytes.                   *)

IWAD == <<73, 87, 65, 68>>

PWAD == <<80, 87, 65, 68>>

\* [0; n]
Zeros(n) == [q \in 1..n |-> 0]

\* Option<T>
None == [some |-> FALSE, value |-> <<>>]

Some(v) == [some |-> TRUE, value |-> v]

\* Mutant of i32_from_le_bytes: the bytes are taken in big-endian order.
i32_from_be_bytes(b) ==
    (IF b[1] >= 128 THEN b[1] - 256 ELSE b[1]) * 16777216
        + b[2] * 65536 + b[3] * 256 + b[4]

\* i32::from_le_bytes: the most significant byte carries the sign.
i32_from_le_bytes(b) ==
    (IF b[4] >= 128 THEN b[4] - 256 ELSE b[4]) * 16777216
        + b[3] * 65536 + b[2] * 256 + b[1]

i16_from_le_bytes(b) == (IF b[2] >= 128 THEN b[2] - 256 ELSE b[2]) * 256 + b[1]

u16_from_le_bytes(b) == b[2] * 256 + b[1]

\* Mutant of ReadBuf: a read that fails leaves zeros, never the old contents.
ReadBufZeroed(f, pos, b) ==
    IF pos + Len(b) <= Len(f) THEN SubSeq(f, pos + 1, pos + Len(b)) ELSE Zeros(Len(b))

\* The buffer b after file.read_exact(&mut b) at cursor pos: the bytes the
\* file still has are copied; when the file ends early (the Err that the
\* callers drop with "let _ =") the rest of the buffer keeps its contents.
ReadBuf(f, pos, b) ==
    [q \in 1..Len(b) |-> IF pos + q <= Len(f) THEN f[pos + q] ELSE b[q]]

\* Did read_exact of n bytes at cursor pos return Ok?
ReadOk(f, pos, n) == pos + n <= Len(f)

\* The cursor after read_exact of n bytes at cursor pos.
ReadPos(f, pos, n) ==
    IF pos + n <= Len(f) THEN pos + n ELSE IF pos > Len(f) THEN pos ELSE Len(f)

\* Did file.seek(SeekFrom::Start(off as u64)) return Ok?  A negative i32 is
\* cast to a u64 above i64::MAX, which the operating system refuses.
SeekOk(off) == off >= 0

\* The cursor after file.seek(SeekFrom::Start(off as u64)) at cursor pos; a
\* position after the end of the file is accepted.
SeekPos(pos, off) == IF SeekOk(off) THEN off ELSE pos

IsCont(c) == c >= 128 /\ c <= 191

\* The length in bytes of the UTF-8 character that starts b, or 0 when b does
\* not start with a well-formed character.
Utf8CharLen(b) ==
    LET at(n) == IF n <= Len(b) THEN b[n] ELSE 0
    IN  IF b[1] <= 127 THEN 1
        ELSE IF b[1] >= 194 /\ b[1] <= 223 /\ IsCont(at(2)) THEN 2
        ELSE IF /\ b[1] >= 224 /\ b[1] <= 239 /\ IsCont(at(2)) /\ IsCont(at(3))
                /\ (b[1] = 224 => at(2) >= 160)
                /\ (b[1] = 237 => at(2) <= 159) THEN 3
        ELSE IF /\ b[1] >= 240 /\ b[1] <= 244
                /\ IsCont(at(2)) /\ IsCont(at(3)) /\ IsCont(at(4))
                /\ (b[1] = 240 => at(2) >= 144)
                /\ (b[1] = 244 => at(2) <= 143) THEN 4
        ELSE 0

\* String::from_utf8(b).is_ok()
RECURSIVE Utf8Valid(_)
Utf8Valid(b) ==
    IF b = <<>> THEN TRUE
    ELSE /\ Utf8CharLen(b) > 0
         /\ Utf8Valid(SubSeq(b, Utf8CharLen(b) + 1, Len(b)))

\* The length in bytes of the control character (char::is_control: U+0000 to
\* U+001F, U+007F to U+009F) that ends the string s, or 0 when s does not
\* end with one.
EndControlLen(s) ==
    IF s = <<>> THEN 0
    ELSE IF s[Len(s)] <= 31 \/ s[Len(s)] = 127 THEN 1
    ELSE IF /\ Len(s) >= 2 /\ s[Len(s) - 1] = 194
            /\ s[Len(s)] >= 128 /\ s[Len(s)] <= 159
            /\ Utf8Valid(SubSeq(s, 1, Len(s) - 2)) THEN 2
    ELSE 0

\* str.trim_end_matches(char::is_control)
RECURSIVE TrimEndControl(_)
TrimEndControl(s) ==
    IF EndControlLen(s) = 0 THEN s
    ELSE TrimEndControl(SubSeq(s, 1, Len(s) - EndControlLen(s)))

\* input_buf.iter().position(|c| *c == 0).unwrap_or(input_buf.len())
end_pos(input_buf) ==
    LET nulls == {n \in 1..Len(input_buf) : input_buf[n] = 0}
    IN  IF nulls = {} THEN Len(input_buf) ELSE SetMin(nulls) - 1

\* Mutant of buf_to_string: the bytes are not cut at the first null.
buf_to_string_uncut(input_buf) ==
    IF Utf8Valid(input_buf) THEN Some(input_buf) ELSE None

\* buf_to_string (wadd.rs): the bytes before the first null, without the
\* control characters at their end, when they are valid UTF-8.
buf_to_string(input_buf) ==
    IF Utf8Valid(SubSeq(input_buf, 1, end_pos(input_buf)))
    THEN Some(TrimEndControl(SubSeq(input_buf, 1, end_pos(input_buf))))
    ELSE None

\* fstr::<8>::from(String): at most 8 bytes are kept.
fstr(str) == SubSeq(str, 1, IF Len(str) < 8 THEN Len(str) ELSE 8)

\* buf_to_fstr: buf_to_string(input_buf).map(|str| fstr::from(str))
buf_to_fstr(input_buf) ==
    IF buf_to_string(input_buf).some
    THEN Some(fstr(buf_to_string(input_buf).value))
    ELSE None

-----------------------------------------------------------------------------
(* decode_maps: lump decoding.                                             *)

\* The record sizes of the five decoders.
LINEDEF_SIZE == 14

SECTOR_SIZE == 26

SIDEDEF_SIZE == 30

THING_SIZE == 10

VERTEX_SIZE == 4

\* Rust's % and / on i32: the quotient is truncated towards zero and the
\* remainder has the sign of the dividend (d > 0).
RustRem(n, d) == IF n >= 0 THEN n % d ELSE 0 - ((0 - n) % d)

RustDiv(n, d) == IF n >= 0 THEN n \div d ELSE 0 - ((0 - n) \div d)

\* Mutant of SizeAssertHolds: the assertion is missing.
SizeNotAsserted(entry, record_size) == TRUE

\* The assert! at the top of a decoder holds for the entry.
SizeAssertHolds(entry, record_size) == RustRem(entry.size, record_size) = 0

\* The records a decoder collects from (0..(entry.size / SIZE)): one per step of
\* the range, each read from the next record_size bytes after entry.offset.  A
\* record is modelled by the lump type and the file position it is read from.
DecodeRecords(entry, lump_type, record_size) ==
    [n \in 1..RustDiv(entry.size, record_size) |->
        [lump |-> lump_type, at |-> entry.offset + (n - 1) * record_size]]

\* decode_lumps: the decoder's records when the lump set has the lump type, an
\* empty vector otherwise.
decode_lumps(ls, lump_type, record_size) ==
    IF lump_type \in DOMAIN ls
    THEN DecodeRecords(ls[lump_type], lump_type, record_size)
    ELSE <<>>

\* The decoders in the order decode_maps calls them for one map, with the
\* function whose assertion fails named by the panic.
Decoders ==
    <<[lump |-> LINEDEFS, size |-> LINEDEF_SIZE, fn |-> "decode_linedefs"],
      [lump |-> THINGS,   size |-> THING_SIZE,   fn |-> "decode_things"],
      [lump |-> VERTEXES, size |-> VERTEX_SIZE,  fn |-> "decode_vertexes"],
      [lump |-> SIDEDEFS, size |-> SIDEDEF_SIZE, fn |-> "decode_sidedefs"],
      [lump |-> SECTORS,  size |-> SECTOR_SIZE,  fn |-> "decode_sectors"]>>

\* The decoders (by position in Decoders) whose assert! fails on the lump set.
FailingDecoders(ls) ==
    {n \in 1..Len(Decoders) :
        /\ Decoders[n].lump \in DOMAIN ls
        /\ ~SizeAssertHolds(ls[Decoders[n].lump], Decoders[n].size)}

\* The MapData built from a map's name and lump set.
DecodeMap(name, ls) ==
    [name     |-> name,
     linedefs |-> decode_lumps(ls, LINEDEFS, LINEDEF_SIZE),
     sectors  |-> decode_lumps(ls, SECTORS, SECTOR_SIZE),
     sidedefs |-> decode_lumps(ls, SIDEDEFS, SIDEDEF_SIZE),
     things   |-> decode_lumps(ls, THINGS, THING_SIZE),
     vertexes |-> decode_lumps(ls, VERTEXES, VERTEX_SIZE)]

-----------------------------------------------------------------------------
(* decode_maps: the directory scan.                                        *)

DirectoryEntry(n, o, sz) == [name |-> n, offset |-> o, size |-> sz]

\* "this lump is the start of a map"
IsMarker(d) == d.size = 0 /\ d.offset > 0

\* HashMap::insert
Insert(h, key, value) ==
    [q \in DOMAIN h \cup {key} |-> IF q = key THEN value ELSE h[q]]

NoPanic == [kind |-> "none", at |-> "none"]

\* The head of "for mut i in 0..directory.len()": i takes the next value of
\* the range, whatever the body did to it, and a marker starts a lump set.
ForEntry ==
    /\ pc = "for_i"
    /\ next_i < Len(directory)
    /\ i' = next_i
    /\ next_i' = next_i + 1
    /\ IF IsMarker(directory[next_i + 1])
       THEN /\ map_name' = directory[next_i + 1].name
            /\ lumps' = <<>>
            /\ pc' = "loop"
       ELSE UNCHANGED <<map_name, lumps, pc>>
    /\ UNCHANGED <<directory, map_lumps, maps, panic>>
    /\ UNCHANGED extractVars
    /\ UNCHANGED fileVars
    /\ UNCHANGED commandVars

\* One pass of the inner "loop": i += 1, directory.get(i).unwrap(), then either
\* the break and the insert of the map, or the insert of the lump.
RunStep ==
    /\ pc = "loop"
    /\ i' = i + 1
    /\ IF i + 1 >= Len(directory)
       THEN /\ panic' = [kind |-> "unwrap", at |-> "decode_maps"]
            /\ pc' = "panicked"
            /\ UNCHANGED <<lumps, map_lumps>>
       ELSE IF directory[i + 2].name \notin map_lump_names
       THEN /\ map_lumps' = Insert(map_lumps, map_name, lumps)
            /\ pc' = "for_i"
            /\ UNCHANGED <<lumps, panic>>
       ELSE /\ lumps' = Insert(lumps, directory[i + 2].name, directory[i + 2])
            /\ UNCHANGED <<pc, map_lumps, panic>>
    /\ UNCHANGED <<directory, next_i, map_name, maps>>
    /\ UNCHANGED extractVars
    /\ UNCHANGED fileVars
    /\ UNCHANGED commandVars

\* The orders in which a HashMap with these keys may be iterated.
IterationOrders(keys) ==
    {order \in [1..Cardinality(keys) -> keys] :
        \A a, c \in 1..Cardinality(keys) : a # c => order[a] # order[c]}

\* The position of the first map in iteration order with a failing decoder, or 0.
FirstFailing(order) ==
    LET bad == {n \in 1..Len(order) : FailingDecoders(map_lumps[order[n]]) # {}}
    IN  IF bad = {} THEN 0 ELSE SetMin(bad)

\* Mutant of SortByName: the maps stay in iteration order.
NotSorted(ms) == ms

\* sort_by_key(|map| map.name.clone()): a stable sort on the names, here by
\* insertion from the left.
RECURSIVE SortByName(_)
SortByName(ms) ==
    IF ms = <<>> THEN <<>>
    ELSE LET sorted == SortByName(SubSeq(ms, 1, Len(ms) - 1))
             last   == ms[Len(ms)]
             before == Cardinality({n \in 1..Len(sorted) :
                                       ~StrLess(last.name, sorted[n].name)})
         IN  SubSeq(sorted, 1, before) \o <<last>>
               \o SubSeq(sorted, before + 1, Len(sorted))

\* Lines 511-534: the maps are decoded in the HashMap's iteration order, then
\* sorted by name; a failing assert! of a decoder ends the program.
DecodeMaps ==
    /\ pc = "for_i"
    /\ next_i >= Len(directory)
    /\ \E order \in IterationOrders(DOMAIN map_lumps) :
          IF FirstFailing(order) # 0
          THEN /\ panic' =
                    [kind |-> "assert",
                     at |-> Decoders[SetMin(FailingDecoders(
                                map_lumps[order[FirstFailing(order)]]))].fn]
               /\ pc' = "panicked"
               /\ UNCHANGED maps
          ELSE /\ maps' = SortByName([n \in 1..Len(order) |->
                                         DecodeMap(order[n], map_lumps[order[n]])])
               /\ pc' = "returned"
               /\ UNCHANGED panic
    /\ UNCHANGED <<directory, next_i, i, map_name, lumps, map_lumps>>
    /\ UNCHANGED extractVars
    /\ UNCHANGED fileVars
    /\ UNCHANGED commandVars

NextDecode ==
    \/ ForEntry
    \/ RunStep
    \/ DecodeMaps

-----------------------------------------------------------------------------
(* Wad::open: the header and the directory.                                *)

NoHeader == [wad_type |-> "none", directory_offset |-> 0, num_directory_entries |-> 0]

\* The file variables of a program that decodes no bytes.
FileUnread ==
    /\ file = <<>>
    /\ file_pos = 0
    /\ buf = <<>>
    /\ header = NoHeader
    /\ lump_entry = DirectoryEntry(<<>>, 0, 0)
    /\ records = <<>>

\* The variables of handle_command while the file is opened and decoded: no
\* command has been matched.
NoCommand ==
    /\ params = <<>>
    /\ map_iter = 0
    /\ saved = <<>>

\* decode_header, and the first statements of decode_directory: the header
\* buffer is read (the Result is dropped), the signature is matched, the two
\* numbers are decoded, and entry_buf is zeroed.
DecodeHeader ==
    /\ pc = "open"
    /\ LET header_buf == ReadBuf(file, file_pos, Zeros(12))
       IN  /\ file_pos' = ReadPos(file, file_pos, 12)
           /\ IF SubSeq(header_buf, 1, 4) \in {IWAD, PWAD}
              THEN /\ header' =
                        [wad_type |-> IF SubSeq(header_buf, 1, 4) = IWAD
                                      THEN "IWAD" ELSE "PWAD",
                         directory_offset |->
                             i32_from_le_bytes(SubSeq(header_buf, 9, 12)),
                         num_directory_entries |->
                             i32_from_le_bytes(SubSeq(header_buf, 5, 8))]
                   /\ buf' = Zeros(16)
                   /\ pc' = "for_entry"
                   /\ UNCHANGED panic
              ELSE /\ panic' = [kind |-> "panic", at |-> "decode_header"]
                   /\ buf' = header_buf
                   /\ pc' = "panicked"
                   /\ UNCHANGED header
    /\ UNCHANGED <<file, lump_entry, records>>
    /\ UNCHANGED commandVars
    /\ UNCHANGED decodeVars
    /\ UNCHANGED extractVars

\* One pass of "for i in 0..num_entries" (i is the number of entries pushed):
\* seek and read_exact with their Results dropped, then the entry is built
\* from entry_buf, or the expect on its name fails.
DecodeEntry ==
    /\ pc = "for_entry"
    /\ Len(directory) < header.num_directory_entries
    /\ LET entry_offset == header.directory_offset + (Len(directory) * 16)
           sought       == SeekPos(file_pos, entry_offset)
           entry_buf    == ReadBuf(file, sought, buf)
           lump_name    == buf_to_string(SubSeq(entry_buf, 9, 16))
       IN  /\ file_pos' = ReadPos(file, sought, 16)
           /\ buf' = entry_buf
           /\ IF lump_name.some
              THEN /\ directory' =
                        Append(directory,
                               DirectoryEntry(lump_name.value,
                                              i32_from_le_bytes(SubSeq(entry_buf, 1, 4)),
                                              i32_from_le_bytes(SubSeq(entry_buf, 5, 8))))
                   /\ UNCHANGED <<pc, panic>>
              ELSE /\ panic' = [kind |-> "expect", at |-> "decode_directory",
                                index |-> Len(directory), offset |-> entry_offset]
                   /\ pc' = "panicked"
                   /\ UNCHANGED directory
    /\ UNCHANGED <<file, header, lump_entry, records>>
    /\ UNCHANGED commandVars
    /\ UNCHANGED <<next_i, i, map_name, lumps, map_lumps, maps>>
    /\ UNCHANGED extractVars

\* decode_directory returns its entries and Wad::open calls decode_maps.
DirectoryDone ==
    /\ pc = "for_entry"
    /\ Len(directory) >= header.num_directory_entries
    /\ pc' = "for_i"
    /\ UNCHANGED panic
    /\ UNCHANGED decodeVars
    /\ UNCHANGED extractVars
    /\ UNCHANGED fileVars
    /\ UNCHANGED commandVars

NextOpen ==
    \/ DecodeHeader
    \/ DecodeEntry
    \/ DirectoryDone

\* The program is in Wad::open, the file f opened and nothing read.
InitOpen(files) ==
    /\ file \in files
    /\ pc = "open"
    /\ file_pos = 0
    /\ buf = <<>>
    /\ header = NoHeader
    /\ lump_entry = DirectoryEntry(<<>>, 0, 0)
    /\ records = <<>>
    /\ directory = <<>>
    /\ next_i = 0
    /\ i = 0
    /\ map_name = <<>>
    /\ lumps = <<>>
    /\ map_lumps = <<>>
    /\ maps = <<>>
    /\ panic = NoPanic
    /\ map = <<>>
    /\ sectors = <<>>
    /\ sector_id = -1
    /\ pending_lines = <<>>
    /\ to_v = Vertex(0, 0)
    /\ data = <<>>
    /\ doc = <<>>
    /\ strokes = <<>>
    /\ warnings = <<>>
    /\ NoCommand

-----------------------------------------------------------------------------
(* The lump decoders decode_vertexes and decode_sidedefs, byte by byte.    *)

\* The index in Decoders of the decoder of a lump type.
DecoderOf(lump_type) == CHOOSE n \in 1..Len(Decoders) : Decoders[n].lump = lump_type

\* Mutant of Texture: the placeholder is not filtered out.
TextureUnfiltered(field) == buf_to_fstr(field)

\* buf_to_fstr(field).filter(|str| str != NO_TEXTURE_PLACEHOLDER)
Texture(field) ==
    IF buf_to_fstr(field).some /\ buf_to_fstr(field).value # <<45>>
    THEN buf_to_fstr(field)
    ELSE None

\* The SideDef built from the 30 bytes of the record buffer.
DecodeSideDef(b) ==
    [x |-> i16_from_le_bytes(SubSeq(b, 1, 2)),
     y |-> i16_from_le_bytes(SubSeq(b, 3, 4)),
     upper_texture |-> Texture(SubSeq(b, 5, 12)),
     lower_texture |-> Texture(SubSeq(b, 13, 20)),
     middle_texture |-> Texture(SubSeq(b, 21, 28)),
     sector |-> u16_from_le_bytes(SubSeq(b, 29, 30))]

\* The Vertex built from the 4 bytes of the record buffer.
DecodeVertex(b) ==
    Vertex(i16_from_le_bytes(SubSeq(b, 1, 2)), i16_from_le_bytes(SubSeq(b, 3, 4)))

\* The first statements of decode_vertexes / decode_sidedefs: the assert! on
\* the size, the seek (its Result dropped) and the zeroed record buffer.
DecodeLumpStart ==
    /\ pc = "decode_lump"
    /\ LET decoder == Decoders[DecoderOf(lump_entry.name)]
       IN  IF SizeAssertHolds(lump_entry, decoder.size)
           THEN /\ file_pos' = SeekPos(file_pos, lump_entry.offset)
                /\ buf' = Zeros(decoder.size)
                /\ pc' = "map_records"
                /\ UNCHANGED panic
           ELSE /\ panic' = [kind |-> "assert", at |-> decoder.fn]
                /\ pc' = "panicked"
                /\ UNCHANGED <<file_pos, buf>>
    /\ UNCHANGED <<file, header, lump_entry, records>>
    /\ UNCHANGED commandVars
    /\ UNCHANGED decodeVars
    /\ UNCHANGED extractVars

\* One step of (0..(entry.size / SIZE)).map(..): read_exact into the record
\* buffer (its Result dropped) and the record built from the buffer.
DecodeRecord ==
    /\ pc = "map_records"
    /\ Len(records) < RustDiv(lump_entry.size, Decoders[DecoderOf(lump_entry.name)].size)
    /\ buf' = ReadBuf(file, file_pos, buf)
    /\ file_pos' = ReadPos(file, file_pos, Len(buf))
    /\ records' = Append(records, IF lump_entry.name = SIDEDEFS
                                  THEN DecodeSideDef(buf')
                                  ELSE DecodeVertex(buf'))
    /\ UNCHANGED <<pc, panic, file, header, lump_entry>>
    /\ UNCHANGED commandVars
    /\ UNCHANGED decodeVars
    /\ UNCHANGED extractVars

\* collect(): the decoder returns its records.
CollectRecords ==
    /\ pc = "map_records"
    /\ Len(records) >= RustDiv(lump_entry.size, Decoders[DecoderOf(lump_entry.name)].size)
    /\ pc' = "decoded"
    /\ UNCHANGED panic
    /\ UNCHANGED decodeVars
    /\ UNCHANGED extractVars
    /\ UNCHANGED fileVars
    /\ UNCHANGED commandVars

NextLumpBytes ==
    \/ DecodeLumpStart
    \/ DecodeRecord
    \/ CollectRecords

\* The program is at the start of a lump decoder, called for one of the
\* entries on one of the files, the cursor wherever earlier reads left it.
InitLumpBytes(files, entries, cursors) ==
    /\ file \in files
    /\ lump_entry \in entries
    /\ file_pos \in cursors
    /\ pc = "decode_lump"
    /\ buf = <<>>
    /\ header = NoHeader
    /\ records = <<>>
    /\ directory = <<>>
    /\ next_i = 0
    /\ i = 0
    /\ map_name = <<>>
    /\ lumps = <<>>
    /\ map_lumps = <<>>
    /\ maps = <<>>
    /\ panic = NoPanic
    /\ map = <<>>
    /\ sectors = <<>>
    /\ sector_id = -1
    /\ pending_lines = <<>>
    /\ to_v = Vertex(0, 0)
    /\ data = <<>>
    /\ doc = <<>>
    /\ strokes = <<>>
    /\ warnings = <<>>
    /\ NoCommand

\* The program is in decode_maps for directory dir, before the scan.
InitDecode(dirs) ==
    /\ directory \in dirs
    /\ pc = "for_i"
    /\ next_i = 0
    /\ i = 0
    /\ map_name = <<>>
    /\ lumps = <<>>
    /\ map_lumps = <<>>
    /\ maps = <<>>
    /\ panic = NoPanic
    /\ map = <<>>
    /\ sectors = <<>>
    /\ sector_id = -1
    /\ pending_lines = <<>>
    /\ to_v = Vertex(0, 0)
    /\ data = <<>>
    /\ doc = <<>>
    /\ strokes = <<>>
    /\ warnings = <<>>
    /\ FileUnread
    /\ NoCommand

\* The longest directory of SpecMaps.
MaxEntries == 4

\* Two map markers, lumps of a map (one of them empty with a positive offset,
\* one empty with offset 0) and a lump that belongs to no map.
ScanEntries ==
    {DirectoryEntry(MAP01, 12, 0), DirectoryEntry(E1M1, 12, 0),
     DirectoryEntry(LINEDEFS, 12, 28), DirectoryEntry(VERTEXES, 40, 8),
     DirectoryEntry(REJECT, 48, 0), DirectoryEntry(THINGS, 0, 0),
     DirectoryEntry(TEXTURE1, 48, 5)}

ScanDirectories == UNION {[1..len -> ScanEntries] : len \in 0..MaxEntries}

InitMaps == InitDecode(ScanDirectories)

SpecMaps == InitMaps /\ [][NextDecode]_vars

\* The largest lump size of SpecLump, in bytes; sizes run from -MaxLumpSize (the
\* size field is a signed i32) to MaxLumpSize.
MaxLumpSize == 60

\* A map marker, a well-formed VERTEXES lump, a lump of one of the five decoded
\* types with any size, and the entry that ends the run.
LumpDirectories ==
    {<<DirectoryEntry(MAP01, 12, 0), DirectoryEntry(VERTEXES, 12, 8),
       DirectoryEntry(Decoders[t].lump, 20, sz), DirectoryEntry(TEXTURE1, 20, 5)>> :
        t \in 1..Len(Decoders), sz \in (0 - MaxLumpSize)..MaxLumpSize}

InitLump == InitDecode(LumpDirectories)

SpecLump == InitLump /\ [][NextDecode]_vars

-----------------------------------------------------------------------------
(* Inputs of Wad::open: WAD files.                                         *)

\* The four bytes of the i32 n, least significant first.
I32Bytes(n) ==
    LET low == IF n < 0 THEN (n + 2147483647) + 1 ELSE n
    IN  <<low % 256, (low \div 256) % 256, (low \div 65536) % 256,
          (low \div 16777216) + (IF n < 0 THEN 128 ELSE 0)>>

\* An 8-byte name field: the bytes of the name, end-padded with nulls.
NameField(name) == name \o Zeros(8 - Len(name))

\* The 16 bytes of a directory entry.
EntryBytes(d) == I32Bytes(d.offset) \o I32Bytes(d.size) \o NameField(d.name)

\* The 12 bytes of a header.
HeaderBytes(signature, num_entries, offset) ==
    signature \o I32Bytes(num_entries) \o I32Bytes(offset)

\* All the prefixes of a file, the file included.
Prefixes(f) == {SubSeq(f, 1, len) : len \in 0..Len(f)}

\* The largest entry count in the headers of SpecHeader.
MaxHeaderEntries == 2

\* The two tags, tags that differ from them in one byte, in case or in byte
\* order, bytes that are no text, and nulls.
Signatures ==
    {IWAD, PWAD, <<73, 87, 65, 69>>, <<105, 119, 97, 100>>, <<68, 65, 87, 73>>,
     <<80, 87, 65, 0>>, <<255, 87, 65, 68>>, <<0, 0, 0, 0>>}

\* Two directory entries, read from offset 12 (both), 28 (the second only).
HeaderBody ==
    EntryBytes(DirectoryEntry(MAP01, 44, 0)) \o EntryBytes(DirectoryEntry(TEXTURE1, 44, 5))

\* Files with every signature, entry counts from -1 to MaxHeaderEntries and
\* the minimal i32, and directory offsets inside and outside the file; and the
\* files that end inside the header.
HeaderFiles ==
    {HeaderBytes(sig, num, off) \o HeaderBody :
        sig \in Signatures,
        num \in (-1..MaxHeaderEntries) \cup {-2147483647 - 1},
        off \in {-1, 0, 12, 28, 300}}
    \cup {SubSeq(HeaderBytes(sig, 2, 12), 1, len) : sig \in {IWAD, <<68, 65, 87, 73>>},
                                                   len \in 0..11}

InitHeader == InitOpen(HeaderFiles)

SpecHeader == InitHeader /\ [][NextOpen]_vars

\* A WAD of one map: the header, a directory of two entries at offset 12 and
\* a VERTEXES lump of two vertexes, (1, 2) and (-1, 3), at offset 44.
SmallWad ==
    HeaderBytes(IWAD, 2, 12)
        \o EntryBytes(DirectoryEntry(MAP01, 44, 0))
        \o EntryBytes(DirectoryEntry(VERTEXES, 44, 8))
        \o <<1, 0, 2, 0, 255, 255, 3, 0>>

\* The VERTEXES entry of SmallWad, the same lump with a negative offset, and a
\* lump of one vertex more than the file holds.
SmallWadLumps ==
    {DirectoryEntry(VERTEXES, 44, 8), DirectoryEntry(VERTEXES, -1, 8),
     DirectoryEntry(VERTEXES, 44, 12)}

\* Wad::open, or decode_vertexes after the directory was read, on SmallWad
\* and on every file that is SmallWad cut short.
InitTruncated ==
    \/ InitOpen(Prefixes(SmallWad))
    \/ InitLumpBytes(Prefixes(SmallWad), SmallWadLumps, {44})

SpecTruncated == InitTruncated /\ [][NextOpen \/ NextLumpBytes]_vars

\* The number of leading bytes of a name field that SpecNames varies freely.
MaxNameBytes == 4

\* Null, line feed and DEL (controls), "A", the two bytes of U+0085 (a control
\* character when 194 is followed by 133) and a byte that no text contains.
NameBytes == {0, 10, 65, 127, 133, 194, 255}

\* 8-byte name fields: MaxNameBytes free bytes, then nulls, "A" and nulls, a
\* null and "A", or a line feed and nulls.
NameFields ==
    {head \o tail \o Zeros(8 - MaxNameBytes - Len(tail)) :
        head \in [1..MaxNameBytes -> NameBytes],
        tail \in {<<>>, <<65>>, <<0, 65>>, <<10>>}}

\* Files with a directory of one entry at offset 12, its name field varied.
NameFiles ==
    {HeaderBytes(PWAD, 1, 12) \o I32Bytes(28) \o I32Bytes(0) \o field :
        field \in NameFields}

InitNames == InitOpen(NameFiles)

SpecNames == InitNames /\ [][NextOpen]_vars

\* The number of leading bytes of a texture field that SpecSideDef varies.
MaxTextureBytes == 2

\* Null, line feed, "-", "A" and a byte that no text contains.
TextureBytes == {0, 10, 45, 65, 255}

\* 8-byte texture fields: up to MaxTextureBytes free bytes end-padded with
\* nulls, and two names that fill the field.
TextureFields ==
    {head \o Zeros(8 - Len(head)) :
        head \in UNION {[1..len -> TextureBytes] : len \in 0..MaxTextureBytes}}
    \cup {<<45, 45, 45, 45, 45, 45, 45, 45>>, <<45, 65, 65, 65, 65, 65, 65, 65>>}

\* The 30 bytes of a SideDef record: x = 1, y = -1, the three fields, sector 2.
SideDefBytes(upper, lower, middle) ==
    <<1, 0, 255, 255>> \o upper \o lower \o middle \o <<2, 0>>

\* SIDEDEFS lumps of two records: in the first record one field is any of
\* TextureFields and the two others are the placeholder or "A"; the second
\* record has the placeholder, "A" and "-A".
SideDefFiles ==
    {SideDefBytes(IF at = 1 THEN field ELSE others[1],
                  IF at = 2 THEN field ELSE IF at = 1 THEN others[1] ELSE others[2],
                  IF at = 3 THEN field ELSE others[2])
       \o SideDefBytes(NameField(<<45>>), NameField(<<65>>), NameField(<<45, 65>>)) :
        at \in 1..3, field \in TextureFields,
        others \in {NameField(<<45>>), NameField(<<65>>)}
                       \X {NameField(<<45>>), NameField(<<65>>)}}

\* decode_sidedefs on a lump of one or of two records at the start of the file.
InitSideDef ==
    InitLumpBytes(SideDefFiles,
                  {DirectoryEntry(SIDEDEFS, 0, 30), DirectoryEntry(SIDEDEFS, 0, 60)}, {60})

SpecSideDef == InitSideDef /\ [][NextLumpBytes]_vars

-----------------------------------------------------------------------------
(* Inputs of extract_map.                                                  *)

\* A LineDef; flags, line_type and sector_tag are decoded but never read by
\* extract_map and are left out.
LineDef(b, e, r, l) ==
    [vertex_begin |-> b, vertex_end |-> e, sidedef_right |-> r, sidedef_left |-> l]

SideDef(s) == [sector |-> s]

Sector(light) == [light_level |-> light]

MapData(n, ls, ss, ds, vs) ==
    [name |-> n, linedefs |-> ls, sectors |-> ss, sidedefs |-> ds, things |-> <<>>,
     vertexes |-> vs]

SeqsUpTo(S, n) == UNION {[1..len -> S] : len \in 1..n}

\* The longest linedef list of the maps of SpecStitch.
MaxLines == 3

\* Three places; any two of them may be joined, also a place with itself.
StitchVertexes == <<Vertex(0, 0), Vertex(2, 0), Vertex(0, -1)>>

\* Maps of one sector whose one-sided linedefs join the places in every way.
StitchMaps ==
    {MapData(E1M1, ls, <<Sector(160)>>, <<SideDef(0)>>, StitchVertexes) :
        ls \in SeqsUpTo({LineDef(b, e, 0, -1) : b \in 0..2, e \in 0..2}, MaxLines)}

\* The program is in extract_map for map m, the map named by the parameter of
\* the command, before its first statement.
InitExtract(ms) ==
    /\ map \in ms
    /\ params = <<map.name>>
    /\ map_iter = 0
    /\ saved = <<>>
    /\ pc = "extract"
    /\ sectors = <<>>
    /\ sector_id = -1
    /\ pending_lines = <<>>
    /\ to_v = Vertex(0, 0)
    /\ data = <<>>
    /\ doc = <<>>
    /\ strokes = <<>>
    /\ warnings = <<>>
    /\ directory = <<>>
    /\ next_i = 0
    /\ i = 0
    /\ map_name = <<>>
    /\ lumps = <<>>
    /\ map_lumps = <<>>
    /\ maps = <<>>
    /\ panic = NoPanic
    /\ FileUnread

InitStitch == InitExtract(StitchMaps)

SpecStitch == InitStitch /\ [][NextExtract]_vars

\* extract_map is sequential code: as long as it has a next statement, it
\* executes it.
SpecStitchLive == InitStitch /\ [][NextExtract]_vars /\ WF_vars(NextExtract)

\* A linedef stored in the other direction: its vertexes and its sides swap.
Reversed(ld) ==
    LineDef(ld.vertex_end, ld.vertex_begin, ld.sidedef_left, ld.sidedef_right)

\* The linedef lists that declare the linedefs of base in every order, each in
\* either stored direction.
OrdersAndDirections(base) ==
    {[n \in 1..Len(base) |-> IF rev[n] THEN Reversed(base[order[n]])
                             ELSE base[order[n]]] :
        order \in Permutations(1..Len(base)), rev \in [1..Len(base) -> BOOLEAN]}

\* The linedef lists that declare the linedefs of base in every order.
Orders(base) ==
    {[n \in 1..Len(base) |-> base[order[n]]] : order \in Permutations(1..Len(base))}

\* A room (sector 0) inside another (sector 1): four two-sided linedefs.
QuadVertexes == <<Vertex(-2, -1), Vertex(2, -1), Vertex(2, 2), Vertex(-2, 2)>>

QuadLineDefs ==
    <<LineDef(0, 1, 0, 1), LineDef(1, 2, 0, 1), LineDef(2, 3, 0, 1), LineDef(3, 0, 0, 1)>>

QuadMaps ==
    {MapData(E1M1, ls, <<Sector(160), Sector(255)>>, <<SideDef(0), SideDef(1)>>,
             QuadVertexes) : ls \in OrdersAndDirections(QuadLineDefs)}

InitQuad == InitExtract(QuadMaps)

SpecQuad == InitQuad /\ [][NextExtract]_vars

\* A room with a pillar: an outer and an inner quadrilateral of one-sided
\* linedefs, the inner one stored clockwise, one outer linedef stored backwards.
HoleVertexes ==
    <<Vertex(0, 0), Vertex(8, 0), Vertex(8, 8), Vertex(0, 8),
      Vertex(2, 2), Vertex(4, 2), Vertex(4, 4), Vertex(2, 4)>>

HoleLineDefs ==
    <<LineDef(0, 1, 0, -1), LineDef(1, 2, 0, -1), LineDef(3, 2, 0, -1), LineDef(3, 0, 0, -1),
      LineDef(4, 7, 0, -1), LineDef(7, 6, 0, -1), LineDef(6, 5, 0, -1), LineDef(5, 4, 0, -1)>>

HoleMaps ==
    {MapData(E1M1, ls, <<Sector(160)>>, <<SideDef(0)>>, HoleVertexes) :
        ls \in Orders(HoleLineDefs)}

InitHole == InitExtract(HoleMaps)

SpecHole == InitHole /\ [][NextExtract]_vars

\* A triangle and one linedef that shares no endpoint with it.
IsolatedVertexes ==
    <<Vertex(0, 0), Vertex(4, 0), Vertex(0, 3), Vertex(6, 5), Vertex(7, 5)>>

IsolatedLineDefs ==
    <<LineDef(0, 1, 0, -1), LineDef(1, 2, 0, -1), LineDef(2, 0, 0, -1), LineDef(3, 4, 0, -1)>>

IsolatedMaps ==
    {MapData(E1M1, ls, <<Sector(160)>>, <<SideDef(0)>>, IsolatedVertexes) :
        ls \in OrdersAndDirections(IsolatedLineDefs)}

InitIsolated == InitExtract(IsolatedMaps)

SpecIsolated == InitIsolated /\ [][NextExtract]_vars

\* The longest linedef list of the maps of SpecMember.
MaxMemberLines == 3

\* Linedef n joins vertex n-1 to vertex n, so no two linedefs are equal.
MemberVertexes == [n \in 1..(MaxMemberLines + 1) |-> Vertex(n, n * n)]

\* Two sectors; each side of each linedef is absent (-1) or sidedef 0 or 1, and
\* the two sidedefs reference the sectors in every way that leaves sector 1 used.
MemberMaps ==
    {MapData(E1M1, [n \in 1..len |-> LineDef(n - 1, n, sides[n][1], sides[n][2])],
             <<Sector(160), Sector(255)>>, <<SideDef(ds[1]), SideDef(ds[2])>>,
             MemberVertexes) :
        len \in 1..MaxMemberLines,
        sides \in [1..MaxMemberLines -> (-1..1) \X (-1..1)],
        ds \in {<<0, 1>>, <<1, 0>>, <<1, 1>>}}

InitMember == InitExtract(MemberMaps)

SpecMember == InitMember /\ [][NextExtract]_vars

\* The largest index stored in a linedef or a sidedef of the maps of SpecIndex.
MaxIndex == 2

\* Maps of two vertexes, two sidedefs and one sector: a linedef with right
\* side in sector 0, followed or not by a linedef whose four indices run from
\* -1 to MaxIndex, and sidedefs that reference sectors 0 to MaxIndex.
IndexMaps ==
    {MapData(E1M1, first \o <<LineDef(b, e, r, l)>>, <<Sector(160)>>,
             <<SideDef(0), SideDef(sc)>>, <<Vertex(0, 0), Vertex(3, 4)>>) :
        first \in {<<>>, <<LineDef(0, 1, 0, -1)>>},
        b \in -1..MaxIndex, e \in -1..MaxIndex, r \in -1..MaxIndex,
        l \in -1..MaxIndex, sc \in 0..MaxIndex}

InitIndex == InitExtract(IndexMaps)

SpecIndex == InitIndex /\ [][NextExtract \/ IndexPanic]_vars

\* The coordinates of the vertexes of the maps of SpecOverflow: the ends of
\* the i16 range and values next to zero.
OverflowCoordinates == {-32768, -1, 0, 1, 32767}

\* Maps of three vertexes with any of the coordinates, joined by two one-sided
\* linedefs of one sector.
OverflowMaps ==
    {MapData(E1M1, <<LineDef(0, 1, 0, -1), LineDef(2, 1, 0, -1)>>, <<Sector(160)>>,
             <<SideDef(0)>>, <<Vertex(x1, y1), Vertex(x2, y2), Vertex(0, y3)>>) :
        x1 \in OverflowCoordinates, y1 \in OverflowCoordinates,
        x2 \in OverflowCoordinates, y2 \in OverflowCoordinates,
        y3 \in OverflowCoordinates}

InitOverflow == InitExtract(OverflowMaps)

SpecOverflow == InitOverflow /\ [][NextExtract \/ OverflowPanic]_vars

-----------------------------------------------------------------------------
(* handle_command: the "svg" command, for one map or for every map.        *)

\* wad.maps.iter().find(|map| map.name == map_name): the (1-based) position of
\* the first map with the name, or 0 for None.
Find(ms, name) ==
    LET hits == {n \in 1..Len(ms) : ms[n].name = name}
    IN  IF hits = {} THEN 0 ELSE SetMin(hits)

\* The call extract_map(&wad, name) up to line 50: the map is found by name and
\* the locals of the call are fresh, or the expect panics.
CallExtractMap(name) ==
    IF Find(maps, name) = 0
    THEN /\ panic' = [kind |-> "expect", at |-> "That map does not exist."]
         /\ pc' = "panicked"
         /\ UNCHANGED extractVars
    ELSE /\ map' = maps[Find(maps, name)]
         /\ sectors' = <<>>
         /\ sector_id' = -1
         /\ pending_lines' = <<>>
         /\ to_v' = Vertex(0, 0)
         /\ data' = <<>>
         /\ doc' = <<>>
         /\ strokes' = <<>>
         /\ pc' = "extract"
         /\ UNCHANGED <<warnings, panic>>

\* Lines 31-35: "svg" with a map name extracts that map, without one it
\* starts the loop over every map of the WAD.
HandleCommand ==
    /\ pc = "svg"
    /\ IF params # <<>>
       THEN CallExtractMap(params[1])
       ELSE /\ pc' = "for_map"
            /\ UNCHANGED extractVars
            /\ UNCHANGED panic
    /\ UNCHANGED <<directory, next_i, i, map_name, lumps, map_lumps, maps>>
    /\ UNCHANGED fileVars
    /\ UNCHANGED commandVars

\* Lines 36-38: the loop takes the next map, at its start or when extract_map
\* has returned, and calls extract_map with its name.
ForMap ==
    /\ pc \in {"for_map", "saved"}
    /\ params = <<>>
    /\ map_iter < Len(maps)
    /\ map_iter' = map_iter + 1
    /\ CallExtractMap(maps[map_iter + 1].name)
    /\ UNCHANGED <<directory, next_i, i, map_name, lumps, map_lumps, maps>>
    /\ UNCHANGED fileVars
    /\ UNCHANGED <<params, saved>>

\* Lines 33 and 36-41: handle_command returns, after the one map or when the
\* loop has taken every map.
CommandDone ==
    /\ \/ pc = "saved" /\ params # <<>>
       \/ pc \in {"for_map", "saved"} /\ params = <<>> /\ map_iter >= Len(maps)
    /\ pc' = "done"
    /\ UNCHANGED panic
    /\ UNCHANGED extractVars
    /\ UNCHANGED decodeVars
    /\ UNCHANGED fileVars
    /\ UNCHANGED commandVars

NextCommand ==
    \/ HandleCommand
    \/ ForMap
    \/ CommandDone
    \/ NextExtract
    \/ IndexPanic
    \/ LinesAssertPanic
    \/ SectorsIndexPanic

\* The most maps of a WAD of SpecCommand.
MaxMaps == 2

\* "MAP01", "MAP02", ...: the name of the n-th map of a WAD, in sorted order.
MapName(n) == <<77, 65, 80, 48, 48 + n>>

CommandVertexes == <<Vertex(0, 0), Vertex(3, 0), Vertex(0, 4)>>

\* The maps a WAD of SpecCommand gives a name: the map of a marker with an
\* empty lump run (every vector empty); a map with a linedef without sides and
\* no sidedef and no sector; a map with a sector and no linedef; a triangle
\* of one sector; a single linedef of one sector; and a map whose linedef
\* has a vertex index past the end of the vertexes.
NamedMaps(name) ==
    {DecodeMap(name, <<>>),
     MapData(name, <<LineDef(0, 1, -1, -1)>>, <<>>, <<>>, CommandVertexes),
     MapData(name, <<>>, <<Sector(160)>>, <<SideDef(0)>>, CommandVertexes),
     MapData(name, <<LineDef(0, 1, 0, -1), LineDef(1, 2, 0, -1), LineDef(2, 0, 0, -1)>>,
             <<Sector(160)>>, <<SideDef(0)>>, CommandVertexes),
     MapData(name, <<LineDef(0, 1, 0, -1)>>, <<Sector(160)>>, <<SideDef(0)>>,
             CommandVertexes),
     MapData(name, <<LineDef(0, 3, 0, -1)>>, <<Sector(160)>>, <<SideDef(0)>>,
             CommandVertexes)}

\* wad.maps: up to MaxMaps maps, sorted by name, no name twice.
WadMaps ==
    UNION {{ms \in [1..len -> UNION {NamedMaps(MapName(n)) : n \in 1..len}] :
                \A n \in 1..len : ms[n].name = MapName(n)} : len \in 0..MaxMaps}

\* The program is in handle_command, the WAD opened and the command "svg"
\* matched; the parameters are none, or a name, of a map of the WAD or not.
InitCommand ==
    /\ maps \in WadMaps
    /\ params \in {<<>>} \cup {<<MapName(n)>> : n \in 1..(MaxMaps + 1)}
    /\ pc = "svg"
    /\ map_iter = 0
    /\ saved = <<>>
    /\ map = <<>>
    /\ sectors = <<>>
    /\ sector_id = -1
    /\ pending_lines = <<>>
    /\ to_v = Vertex(0, 0)
    /\ data = <<>>
    /\ doc = <<>>
    /\ strokes = <<>>
    /\ warnings = <<>>
    /\ directory = <<>>
    /\ next_i = 0
    /\ i = 0
    /\ map_name = <<>>
    /\ lumps = <<>>
    /\ map_lumps = <<>>
    /\ panic = NoPanic
    /\ FileUnread

SpecCommand == InitCommand /\ [][NextCommand]_vars

-----------------------------------------------------------------------------
(* Properties of loop stitching.                                           *)

\* The two endpoints of the b-th edge of loop a, as an unordered pair.
LoopEdge(loops, a, b) == {loops[a].points[b], loops[a].points[b + 1]}

LoopEdgeSlots(loops) ==
    UNION {{<<a, b>> : b \in 1..(Len(loops[a].points) - 1)} : a \in 1..Len(loops)}

\* The two emitted endpoints of a line of a sector, as an unordered pair.
LineEdge(line) == {Point(map, line.v1), Point(map, line.v2)}

\* Every endpoint pair occurs as often among the lines of the sector as among
\* the lines still pending and the edges of the loops together.
Conserved(pending, loops, lines) ==
    /\ Len(pending) + Cardinality(LoopEdgeSlots(loops)) = Len(lines)
    /\ \A e \in {LineEdge(lines[n]) : n \in 1..Len(lines)}
                \cup {LoopEdge(loops, sl[1], sl[2]) : sl \in LoopEdgeSlots(loops)} :
          Cardinality({n \in 1..Len(pending) : LineEdge(pending[n]) = e})
            + Cardinality({sl \in LoopEdgeSlots(loops) : LoopEdge(loops, sl[1], sl[2]) = e})
          = Cardinality({n \in 1..Len(lines) : LineEdge(lines[n]) = e})

RECURSIVE SumEdges(_)
SumEdges(loops) ==
    IF loops = <<>> THEN 0 ELSE (Len(loops[1].points) - 1) + SumEdges(Tail(loops))

IsOpen(loop) == loop.points[Len(loop.points)] # loop.points[1]

\* C1: while a sector is stitched, every member segment is either still in the
\* working list or is exactly one edge of one loop (none used twice, none
\* dropped); when the sector is finished the working list is empty and the sum
\* over its loops of (number of points - 1) is the number of member segments.
C1_EverySegmentInOneLoop ==
    /\ pc \in {"while_pending", "while_position"} =>
          Conserved(pending_lines, LoopsOf(data), sectors[sector_id + 1].lines)
    /\ pc \in {"for_sector", "saved"} =>
          /\ pending_lines = <<>>
          /\ \A s \in 1..Len(doc) :
                /\ Conserved(<<>>, LoopsOf(doc[s]), sectors[s].lines)
                /\ SumEdges(LoopsOf(doc[s])) = Len(sectors[s].lines)

\* A finished sector of at least three segments stitched into two loops, the
\* second of them continued by a segment that was not the first one pending.
C1_Witness ==
    /\ pc = "saved"
    /\ Len(sectors[1].lines) >= 3
    /\ Len(LoopsOf(doc[1])) = 2
    /\ sectors[1].lines[2].v1 # sectors[1].lines[1].v2
    /\ sectors[1].lines[2].v2 # sectors[1].lines[1].v2
    /\ Len(LoopsOf(doc[1])[1].points) = 3

\* C2 (as claimed): a sector bounded by exactly 4 two-sided linedefs forming a
\* closed quadrilateral yields, in every declaration order and stored
\* direction, exactly one loop, and the loop has 4 points and is closed.
C2_QuadFourPoints ==
    pc = "saved" =>
        \A s \in 1..Len(sectors) :
            /\ Len(LoopsOf(doc[s])) = 1
            /\ Len(LoopsOf(doc[s])[1].points) = 4
            /\ LoopsOf(doc[s])[1].closed

\* C2 (amended): such a sector yields, in every declaration order and stored
\* direction, exactly one loop, closed; the loop has 5 points, the 4 corners
\* (4 distinct points) in chain order followed by the starting corner again.
C2_QuadOneClosedLoop ==
    pc = "saved" =>
        \A s \in 1..Len(sectors) :
            LET loops == LoopsOf(doc[s])
            IN  /\ Len(loops) = 1
                /\ Range(loops[1].points)
                     = {Point(map, Flip(map, QuadVertexes[n])) : n \in 1..4}
                /\ Cardinality(Range(loops[1].points)) = 4
                /\ Len(loops[1].points) = 5
                /\ ~IsOpen(loops[1])
                /\ loops[1].closed

\* A finished quadrilateral whose first linedef is stored backwards and whose
\* second linedef does not touch the end of the first.
C2_Witness ==
    /\ pc = "saved"
    /\ map \in QuadMaps
    /\ map.linedefs[1].sidedef_right = 1
    /\ map.linedefs[2].vertex_begin # map.linedefs[1].vertex_end
    /\ map.linedefs[2].vertex_end # map.linedefs[1].vertex_end
    /\ Len(doc) = 2

HoleOuter == {Point(map, Flip(map, HoleVertexes[n])) : n \in 1..4}

HoleInner == {Point(map, Flip(map, HoleVertexes[n])) : n \in 5..8}

\* C3: a sector of an outer and an inner closed quadrilateral without a shared
\* vertex yields, in every declaration order of the 8 segments, exactly two
\* loops, and no point of either loop is a vertex of the other quadrilateral.
C3_HoleTwoLoops ==
    pc = "saved" =>
        LET loops == LoopsOf(doc[1])
        IN  /\ Len(loops) = 2
            /\ \A a \in 1..2 :
                  \/ Range(loops[a].points) = HoleOuter
                  \/ Range(loops[a].points) = HoleInner
            /\ Range(loops[1].points) # Range(loops[2].points)
            /\ \A a \in 1..2 : ~IsOpen(loops[a])

\* A finished pillar sector whose declaration alternates between the two
\* quadrilaterals, starting with the inner one.
C3_Witness ==
    /\ pc = "saved"
    /\ map \in HoleMaps
    /\ \A n \in 1..8 : (map.linedefs[n].vertex_begin >= 4) = (n % 2 = 1)
    /\ Range(LoopsOf(doc[1])[1].points) = HoleInner

\* C4 (as claimed): when extraction is finished, every sector that has a loop
\* whose last point differs from its first point has been reported by a warning.
C4_OpenLoopWarned ==
    pc = "saved" =>
        \A s \in 1..Len(doc) :
            (\E a \in 1..Len(LoopsOf(doc[s])) : IsOpen(LoopsOf(doc[s])[a]))
                => \E w \in 1..Len(warnings) : warnings[w].sector = s - 1

C16_StitchingTerminates ==
    /\ [][/\ (pc \in {"while_pending", "while_position"} /\ pc' = "while_position")
               => Len(pending_lines') = Len(pending_lines) - 1
          /\ (pc \in {"while_pending", "while_position"} /\ pc' # "while_position")
               => pending_lines' = pending_lines
          /\ (pc = "while_pending" /\ pc' = "for_sector") => pending_lines = <<>>]_vars
    /\ <>(pc = "saved")

\* Extraction has ended for a sector of three segments: two equal segments
\* and a zero-length segment at their common end, a vertex of all three.
C16_Witness ==
    /\ pc = "saved"
    /\ Len(map.linedefs) = 3
    /\ map.linedefs[1] = map.linedefs[2]
    /\ map.linedefs[1].vertex_begin # map.linedefs[1].vertex_end
    /\ map.linedefs[3].vertex_begin = map.linedefs[1].vertex_end
    /\ map.linedefs[3].vertex_end = map.linedefs[1].vertex_end
    /\ Len(doc) = 1

\* Equality of two vertexes by their coordinates.
SamePlace(v, w) == v.x = w.x /\ v.y = w.y

\* The places (from 1) in the working list of the segments with an endpoint at
\* the current endpoint.
Touching ==
    {n \in 1..Len(pending_lines) :
        SamePlace(pending_lines[n].v1, to_v) \/ SamePlace(pending_lines[n].v2, to_v)}

\* C17: every step at the head of the inner scan either finds no segment of
\* the working list with an endpoint at the current endpoint, and then the
\* loop ends with the list unchanged, or it removes the segment with the
\* lowest index among those that have one, keeps the others in their order,
\* and appends to the loop that segment's other endpoint (its first endpoint
\* when the second is the current one, else its second), which becomes the
\* current endpoint.
C17_FirstMatch ==
    [][pc = "while_position" =>
          IF Touching = {}
          THEN /\ pc' = "while_pending"
               /\ pending_lines' = pending_lines
               /\ Len(data') = Len(data) + 1
               /\ data'[Len(data')].op = "Z"
          ELSE \E k \in Touching :
                  /\ \A q \in Touching : k <= q
                  /\ pc' = "while_position"
                  /\ Len(pending_lines') = Len(pending_lines) - 1
                  /\ \A j \in 1..(k - 1) : pending_lines'[j] = pending_lines[j]
                  /\ \A j \in k..Len(pending_lines') :
                        pending_lines'[j] = pending_lines[j + 1]
                  /\ IF SamePlace(pending_lines[k].v2, to_v)
                     THEN SamePlace(to_v', pending_lines[k].v1)
                     ELSE SamePlace(to_v', pending_lines[k].v2)
                  /\ Len(data') = Len(data) + 1
                  /\ \A j \in 1..Len(data) : data'[j] = data[j]
                  /\ data'[Len(data')].op = "L"
                  /\ data'[Len(data')].p = <<to_v'.x - min_x(map), to_v'.y - min_y(map)>>]_vars

\* The second and the third segment of a sector both touch the end of the
\* first; the loop was extended by the second, stored towards that end, to the
\* second's first endpoint, and the third is still in the working list.
C17_Witness ==
    /\ pc = "while_position"
    /\ Len(sectors[1].lines) = 3
    /\ sectors[1].lines[2].v2 = sectors[1].lines[1].v2
    /\ sectors[1].lines[2].v1 # sectors[1].lines[1].v2
    /\ sectors[1].lines[3].v1 = sectors[1].lines[1].v2
    /\ sectors[1].lines[3] # sectors[1].lines[2]
    /\ pending_lines = <<sectors[1].lines[3]>>
    /\ to_v = sectors[1].lines[2].v1
    /\ Len(data) = 3

\* The indices (1-based) of the linedefs with a right or left side index >= 0
\* whose sidedef references sector S.
Members(S) ==
    {n \in 1..Len(map.linedefs) :
        \E side \in {map.linedefs[n].sidedef_right, map.linedefs[n].sidedef_left} :
            side >= 0 /\ map.sidedefs[side + 1].sector = S}

\* The n-th smallest element of a set of numbers.
Nth(M, n) == CHOOSE j \in M : Cardinality({q \in M : q < j}) = n - 1

\* C6: the segment set of every sector S holds exactly the linedefs with a
\* side index >= 0 whose sidedef references S, each once (also when both sides
\* reference S), in declaration order.
C6_Membership ==
    pc # "extract" =>
        \A S \in 0..(Len(map.sectors) - 1) :
            /\ Len(sectors[S + 1].linedefs) = Cardinality(Members(S))
            /\ Len(sectors[S + 1].lines) = Cardinality(Members(S))
            /\ \A n \in 1..Cardinality(Members(S)) :
                  /\ sectors[S + 1].linedefs[n] = map.linedefs[Nth(Members(S), n)]
                  /\ sectors[S + 1].lines[n].linedef = map.linedefs[Nth(Members(S), n)]

\* Sectors are built for a map where a linedef has both sides in sector 1, one
\* has only its left side there, and one has no side at all.
C6_Witness ==
    /\ pc = "for_sector"
    /\ Len(map.linedefs) = 3
    /\ map.sidedefs = <<SideDef(1), SideDef(1)>>
    /\ map.linedefs[1].sidedef_right = -1 /\ map.linedefs[1].sidedef_left = -1
    /\ map.linedefs[2].sidedef_right = 0 /\ map.linedefs[2].sidedef_left = 1
    /\ map.linedefs[3].sidedef_right = -1 /\ map.linedefs[3].sidedef_left = 0
    /\ Len(sectors[2].linedefs) = 2

\* The number of strokes drawn for the sectors before sector S (from 0).
RECURSIVE StrokesBefore(_)
StrokesBefore(S) ==
    IF S = 0 THEN 0 ELSE StrokesBefore(S - 1) + Cardinality(Members(S - 1))

\* The emitted point of the vertex with index v of the map.
EmittedPoint(v) == Point(map, Flip(map, map.vertexes[v + 1]))

\* When extraction is finished the strokes are, sector after sector, all
\* member segments of the sector in declaration order, each with the two ends
\* of its linedef and drawn one-sided exactly when one of its side indices is
\* negative; and the path of a sector has one edge per member segment, starts
\* at the first end of its first member, and is the same for two sectors
\* with the same members.
StrokesAreMembers ==
    /\ Len(strokes) = StrokesBefore(Len(map.sectors))
    /\ \A S \in 0..(Len(map.sectors) - 1) :
          /\ \A n \in 1..Cardinality(Members(S)) :
                LET linedef == map.linedefs[Nth(Members(S), n)]
                    stroke  == strokes[StrokesBefore(S) + n]
                IN  /\ stroke.p1 = EmittedPoint(linedef.vertex_begin)
                    /\ stroke.p2 = EmittedPoint(linedef.vertex_end)
                    /\ stroke.one_sided =
                          (linedef.sidedef_left < 0 \/ linedef.sidedef_right < 0)
          /\ SumEdges(LoopsOf(doc[S + 1])) = Cardinality(Members(S))
          /\ Members(S) # {} =>
                doc[S + 1][1] =
                    MoveTo(EmittedPoint(map.linedefs[Nth(Members(S), 1)].vertex_begin))
          /\ \A T \in 0..(Len(map.sectors) - 1) :
                Members(S) = Members(T) => doc[S + 1] = doc[T + 1]

\* C20: no step of extraction changes the MapData, and no step after the
\* sectors are built changes a sector's segment list (stitching works on a
\* copy); so when extraction is finished every sector's strokes are all of its
\* member segments in declaration order with their one-/two-sided flag, and
\* the path of a sector is built from its own segments alone, whatever
\* sectors were stitched before it.
C20_StitchingLeavesInputs ==
    /\ [][map' = map /\ (pc # "extract" => sectors' = sectors)]_vars
    /\ [](pc = "saved" => StrokesAreMembers)

\* Extraction is finished for a map of three linedefs and two sectors: the
\* first two linedefs are two-sided between the sectors, the third has only a
\* right side, in sector 1; five strokes are drawn.
C20_Witness ==
    /\ pc = "saved"
    /\ Len(map.linedefs) = 3
    /\ map.sidedefs = <<SideDef(0), SideDef(1)>>
    /\ map.linedefs[1].sidedef_right = 0 /\ map.linedefs[1].sidedef_left = 1
    /\ map.linedefs[2].sidedef_right = 1 /\ map.linedefs[2].sidedef_left = 0
    /\ map.linedefs[3].sidedef_right = 1 /\ map.linedefs[3].sidedef_left = -1
    /\ Len(strokes) = 5
    /\ strokes[5].one_sided
    /\ Len(doc) = 2

\* The member segments of a sector can be assigned to the edges of its loops,
\* one segment to every edge and no segment to two edges, so that the two
\* consecutive points of the edge are the two emitted ends of its segment.
EdgesAreSegments(loops, lines) ==
    \E f \in [LoopEdgeSlots(loops) -> 1..Len(lines)] :
        /\ \A sl \in LoopEdgeSlots(loops) : \A tl \in LoopEdgeSlots(loops) :
              sl # tl => f[sl] # f[tl]
        /\ \A sl \in LoopEdgeSlots(loops) :
              LoopEdge(loops, sl[1], sl[2]) = LineEdge(lines[f[sl]])

\* C21: in every loop produced by stitching, in the sector being stitched as
\* in the finished ones, each pair of consecutive points is the pair of ends
\* of one member segment of that sector, and distinct pairs of consecutive
\* points, of one loop or of two, belong to distinct member segments; no
\* edge joins two points that no member segment joins.
C21_LoopEdgesAreSegments ==
    /\ pc \in {"while_pending", "while_position"} =>
          EdgesAreSegments(LoopsOf(data), sectors[sector_id + 1].lines)
    /\ \A s \in 1..Len(doc) : EdgesAreSegments(LoopsOf(doc[s]), sectors[s].lines)

\* A finished sector of three segments, two of them between the same two
\* places, stitched into one loop: the second segment was joined against its
\* stored direction, and two edges of the loop have the same pair of ends.
C21_Witness ==
    /\ pc = "saved"
    /\ Len(sectors[1].lines) = 3
    /\ Len(LoopsOf(doc[1])) = 1
    /\ sectors[1].lines[2].v2 = sectors[1].lines[1].v2
    /\ sectors[1].lines[2].v1 # sectors[1].lines[2].v2
    /\ \E b \in 2..3 : LoopEdge(LoopsOf(doc[1]), 1, b) = LoopEdge(LoopsOf(doc[1]), 1, 1)

-----------------------------------------------------------------------------
(* Properties of map assembly.                                             *)

\* The positions (1-based) of the maximal contiguous run of recognized lump
\* names that follows position m.
RunAfter(m) ==
    {n \in (m + 1)..Len(directory) :
        \A q \in (m + 1)..n : directory[q].name \in map_lump_names}

\* The positions of the marker entries that no later marker repeats by name.
LastMarkers ==
    {m \in 1..Len(directory) :
        /\ IsMarker(directory[m])
        /\ \A q \in (m + 1)..Len(directory) :
              IsMarker(directory[q]) => directory[q].name # directory[m].name}

\* The part of C7 that holds of the code: when assembly returns, the lump set
\* of every marker at m is exactly the maximal contiguous run of recognized
\* names after m (so a recognized name after the first unrecognized entry is not
\* in it).
ReturnedRunIsLumpSet ==
    pc = "returned" =>
        \A m \in LastMarkers :
            /\ directory[m].name \in DOMAIN map_lumps
            /\ {map_lumps[directory[m].name][q] : q \in DOMAIN map_lumps[directory[m].name]}
                 = {directory[n] : n \in RunAfter(m)}

\* C7 (as claimed): the lump set assembled for every marker is exactly the run
\* of recognized names that follows it, and assembly does not fail after the
\* lumps of a run were consumed, also when the run extends to the last entry of
\* the directory.
C7_RunIsLumpSet ==
    /\ (pc = "panicked" /\ panic.kind = "unwrap") => lumps = <<>>
    /\ ReturnedRunIsLumpSet

AllEmpty(m) ==
    /\ m.linedefs = <<>>
    /\ m.sidedefs = <<>>
    /\ m.sectors = <<>>
    /\ m.things = <<>>
    /\ m.vertexes = <<>>

\* The vector of a MapData that holds the records of a lump type.
VectorOf(m, lump_type) ==
    CASE lump_type = LINEDEFS -> m.linedefs
      [] lump_type = SIDEDEFS -> m.sidedefs
      [] lump_type = SECTORS -> m.sectors
      [] lump_type = THINGS -> m.things
      [] lump_type = VERTEXES -> m.vertexes

DecodedLumps == {LINEDEFS, SIDEDEFS, SECTORS, THINGS, VERTEXES}

\* The part of C8 that holds of the code: when assembly returns, a marker
\* with no lump run is a map whose five vectors are empty, and every lump type
\* missing from a map's run is an empty vector of that map.
ReturnedEmptyRunIsEmptyMap ==
    pc = "returned" =>
        /\ \A m \in LastMarkers :
              RunAfter(m) = {} =>
                  \E n \in 1..Len(maps) :
                      maps[n].name = directory[m].name /\ AllEmpty(maps[n])
        /\ \A n \in 1..Len(maps) :
              \A t \in DecodedLumps \ DOMAIN map_lumps[maps[n].name] :
                  VectorOf(maps[n], t) = <<>>

\* C8 (as claimed): a marker with no lump run is a valid map with all-empty
\* vectors and never makes assembly fail, at any position of the directory, the
\* last included.
C8_EmptyRunIsEmptyMap ==
    /\ (pc = "panicked" /\ panic.kind = "unwrap") => lumps # <<>>
    /\ ReturnedEmptyRunIsEmptyMap

\* The position of the entry that ends the lump run after position m (one past
\* the directory when the run extends to its end).
RunEnd(m) == m + Cardinality(RunAfter(m)) + 1

\* The positions of the marker entries met by a scan from position pos that
\* continues, after a marker, at the entry that ends the marker's lump run:
\* the markers that lie outside every lump run.
RECURSIVE MarkersOutsideRuns(_)
MarkersOutsideRuns(pos) ==
    IF pos > Len(directory) THEN {}
    ELSE IF IsMarker(directory[pos])
    THEN {pos} \cup MarkersOutsideRuns(RunEnd(pos))
    ELSE MarkersOutsideRuns(pos + 1)

\* C18 (as claimed): when assembly returns, the maps are those of the marker
\* entries that lie outside every lump run, one map per name of such a marker:
\* an entry consumed into a run, also one with size 0 and offset > 0, has
\* created no map of its own.
C18_ConsumedNotReexamined ==
    pc = "returned" =>
        /\ {maps[n].name : n \in 1..Len(maps)}
             = {directory[m].name : m \in MarkersOutsideRuns(1)}
        /\ Len(maps) = Cardinality({directory[m].name : m \in MarkersOutsideRuns(1)})

\* C9: the maps returned are in ascending order of their names, whatever the
\* iteration order of the per-map grouping was: there is one map per grouped
\* name, each decoded from the lump set of its name, so the sequence returned
\* is the same for every run over the directory.
C9_MapsSortedByName ==
    pc = "returned" =>
        /\ \A n \in 1..(Len(maps) - 1) : StrLess(maps[n].name, maps[n + 1].name)
        /\ Len(maps) = Cardinality(DOMAIN map_lumps)
        /\ {maps[n].name : n \in 1..Len(maps)} = DOMAIN map_lumps
        /\ \A n \in 1..Len(maps) :
              maps[n] = DecodeMap(maps[n].name, map_lumps[maps[n].name])

\* Three maps are returned for a directory that declares them in descending
\* order of their names.
C9_Witness ==
    /\ pc = "returned"
    /\ Len(maps) = 3
    /\ Len(directory) >= 3
    /\ StrLess(directory[2].name, directory[1].name)
    /\ StrLess(directory[3].name, directory[2].name)
    /\ maps[1].name = directory[3].name

\* The record sizes as the format fixes them.
FormatSize(lump_type) ==
    CASE lump_type = VERTEXES -> 4
      [] lump_type = LINEDEFS -> 14
      [] lump_type = SIDEDEFS -> 30
      [] lump_type = SECTORS -> 26
      [] lump_type = THINGS -> 10

\* The lump of type t in the lump set of map name has a size (>= 0) that is the
\* q-fold of its record size.
IsMultiple(name, t, q) ==
    /\ t \in DOMAIN map_lumps[name]
    /\ q >= 0
    /\ map_lumps[name][t].size = q * FormatSize(t)

\* The lump of type t in the lump set of map name has a size that is not a
\* multiple of its record size.
IsMalformed(name, t) ==
    /\ t \in DOMAIN map_lumps[name]
    /\ map_lumps[name][t].size % FormatSize(t) # 0

-----------------------------------------------------------------------------
(* Properties of Wad::open.                                                *)

\* The file starts with the four bytes of the tag.
HasSignature(tag) == Len(file) >= 4 /\ \A n \in 1..4 : file[n] = tag[n]

\* C13: once the header is decoded, a file whose first four bytes are neither
\* IWAD nor PWAD has ended the program in the panic of decode_header with no
\* directory entry and no map produced; a file with one of the two tags has
\* not, its type is the tag, and when the file holds the 12 bytes of a header
\* the entry count is the little-endian i32 of bytes 4-7 and the directory
\* offset the little-endian i32 of bytes 8-11.
C13_Signature ==
    pc # "open" =>
        IF HasSignature(<<73, 87, 65, 68>>) \/ HasSignature(<<80, 87, 65, 68>>)
        THEN /\ panic.at # "decode_header"
             /\ header.wad_type = (IF file[1] = 73 THEN "IWAD" ELSE "PWAD")
             /\ Len(file) >= 12 =>
                   /\ I32Bytes(header.num_directory_entries) = SubSeq(file, 5, 8)
                   /\ I32Bytes(header.directory_offset) = SubSeq(file, 9, 12)
        ELSE /\ pc = "panicked"
             /\ panic = [kind |-> "panic", at |-> "decode_header"]
             /\ header = NoHeader
             /\ directory = <<>>
             /\ map_lumps = <<>>
             /\ maps = <<>>

\* A file with the tag in lower case, an entry count of 2 and a directory at
\* offset 12 has ended the program in decode_header.
C13_Witness ==
    /\ pc = "panicked"
    /\ panic.at = "decode_header"
    /\ Len(file) = 44
    /\ SubSeq(file, 1, 12) = <<105, 119, 97, 100, 2, 0, 0, 0, 12, 0, 0, 0>>
    /\ directory = <<>>

\* The two bytes of the i16 n, least significant first.
I16Bytes(n) == <<(n + 65536) % 256, ((n + 65536) \div 256) % 256>>

\* The n bytes of the file after offset off exist: a seek to off and a read of
\* n bytes both return Ok.
InFile(off, n) == off >= 0 /\ off + n <= Len(file)

\* C11 (as claimed): no output is built after a read or seek that failed: the
\* directory is decoded only after the 12 header bytes were read, every
\* DirectoryEntry is built from 16 bytes that the file holds at the entry's
\* place in the directory, and every Vertex from 4 bytes that the file holds
\* at the record's place in the lump.
C11_ReadFailureIsFatal ==
    /\ pc \in {"for_entry", "for_i"} => InFile(0, 12)
    /\ \A n \in 1..Len(directory) :
          LET off == header.directory_offset + (n - 1) * 16
          IN  /\ InFile(off, 16)
              /\ I32Bytes(directory[n].offset) = SubSeq(file, off + 1, off + 4)
              /\ I32Bytes(directory[n].size) = SubSeq(file, off + 5, off + 8)
    /\ \A n \in 1..Len(records) :
          LET off == lump_entry.offset + (n - 1) * 4
          IN  /\ InFile(off, 4)
              /\ I16Bytes(records[n].x) = SubSeq(file, off + 1, off + 2)
              /\ I16Bytes(records[n].y) = SubSeq(file, off + 3, off + 4)

\* The 8-byte name field of the n-th (from 1) entry of the directory.
NameFieldOf(n) ==
    SubSeq(file, header.directory_offset + (n - 1) * 16 + 9,
                 header.directory_offset + (n - 1) * 16 + 16)

\* A null or control byte.
IsNullOrControl(c) == c <= 31 \/ c = 127

\* The prefix of a field that ends before its first null or control byte.
NamePrefix(field) ==
    SubSeq(field, 1,
           Cardinality({n \in 1..Len(field) :
                           \A q \in 1..n : ~IsNullOrControl(field[q])}))

\* C14 (as claimed): the name of every decoded entry is the prefix of its name
\* field that ends before the first null or control byte, and that prefix is
\* valid text; the decoding of an entry fails only when that prefix of its
\* field is not valid text, and the failure reports the index of the entry and
\* its byte offset.
C14_NameIsPrefix ==
    /\ \A n \in 1..Len(directory) :
          /\ directory[n].name = NamePrefix(NameFieldOf(n))
          /\ Utf8Valid(NamePrefix(NameFieldOf(n)))
    /\ (pc = "panicked" /\ panic.at = "decode_directory") =>
          /\ ~Utf8Valid(NamePrefix(NameFieldOf(Len(directory) + 1)))
          /\ panic.index = Len(directory)
          /\ panic.offset = header.directory_offset + Len(directory) * 16

\* What holds of the code: a decoded name holds no null byte, is the start of
\* its field, and does not end with a control character.
NameHasNoNull ==
    \A n \in 1..Len(directory) :
        /\ \A q \in 1..Len(directory[n].name) : directory[n].name[q] # 0
        /\ directory[n].name = SubSeq(NameFieldOf(n), 1, Len(directory[n].name))
        /\ directory[n].name # <<>> =>
              ~IsNullOrControl(directory[n].name[Len(directory[n].name)])

\* The k-th (1 upper, 2 lower, 3 middle) texture field of the n-th record of
\* the lump being decoded.
TextureFieldOf(n, k) ==
    SubSeq(file, lump_entry.offset + (n - 1) * 30 + 4 + (k - 1) * 8 + 1,
                 lump_entry.offset + (n - 1) * 30 + 4 + k * 8)

\* The k-th texture of a SideDef.
TextureOf(sidedef, k) ==
    CASE k = 1 -> sidedef.upper_texture
      [] k = 2 -> sidedef.lower_texture
      [] k = 3 -> sidedef.middle_texture

\* The field is a name of printable characters end-padded with nulls.
IsPaddedName(field) ==
    /\ \A q \in 1..Len(NamePrefix(field)) : field[q] >= 32 /\ field[q] <= 126
    /\ \A q \in (Len(NamePrefix(field)) + 1)..Len(field) : field[q] = 0

\* C15: in every decoded SideDef, each of the three textures whose field is
\* "-" end-padded with nulls is absent, each whose field is another name
\* end-padded with nulls (the empty name and names of 8 characters included)
\* is present with exactly that name, and no texture, whatever its field, is
\* present with the name "-".
C15_Placeholder ==
    \A n \in 1..Len(records) : \A k \in 1..3 :
        /\ ~(TextureOf(records[n], k).some /\ TextureOf(records[n], k).value = <<45>>)
        /\ IsPaddedName(TextureFieldOf(n, k)) =>
              IF NamePrefix(TextureFieldOf(n, k)) = <<45>>
              THEN ~TextureOf(records[n], k).some
              ELSE /\ TextureOf(records[n], k).some
                   /\ TextureOf(records[n], k).value = NamePrefix(TextureFieldOf(n, k))

\* Two SideDefs are decoded; in the first the upper field "-" is absent, the
\* lower field "--" and the middle field "A" are present; in the second the
\* middle field "-A" is present.
C15_Witness ==
    /\ pc = "decoded"
    /\ Len(records) = 2
    /\ TextureFieldOf(1, 1) = <<45, 0, 0, 0, 0, 0, 0, 0>>
    /\ TextureFieldOf(1, 2) = <<45, 45, 0, 0, 0, 0, 0, 0>>
    /\ records[1].upper_texture = None
    /\ records[1].lower_texture = Some(<<45, 45>>)
    /\ records[1].middle_texture = Some(<<65>>)
    /\ records[2].middle_texture = Some(<<45, 65>>)

-----------------------------------------------------------------------------
(* Properties of the geometry of extract_map.                              *)

\* The side indices (>= 0) of the linedefs of the map.
SidesUsed ==
    {side \in UNION {{map.linedefs[n].sidedef_right, map.linedefs[n].sidedef_left} :
                        n \in 1..Len(map.linedefs)} : side >= 0}

\* C12 (as claimed): extraction yields its output only for a map in which
\* every vertex index of a linedef is inside the vertex list, every side index
\* >= 0 of a linedef is inside the sidedef list, and every sidedef a linedef
\* refers to has its sector index inside the sector list.
C12_OutOfRangeIsFatal ==
    pc = "saved" =>
        /\ \A n \in 1..Len(map.linedefs) :
              /\ map.linedefs[n].vertex_begin \in 0..(Len(map.vertexes) - 1)
              /\ map.linedefs[n].vertex_end \in 0..(Len(map.vertexes) - 1)
        /\ \A side \in SidesUsed :
              /\ side < Len(map.sidedefs)
              /\ map.sidedefs[side + 1].sector < Len(map.sectors)

\* The x and the y coordinates of the vertexes that the linedefs of the map
\* join.
UsedX == {map.vertexes[v + 1].x :
            v \in UNION {{map.linedefs[n].vertex_begin, map.linedefs[n].vertex_end} :
                            n \in 1..Len(map.linedefs)}}

UsedY == {map.vertexes[v + 1].y :
            v \in UNION {{map.linedefs[n].vertex_begin, map.linedefs[n].vertex_end} :
                            n \in 1..Len(map.linedefs)}}

\* The point is inside the box [0, w] x [0, h].
InBox(p, w, h) == p[1] >= 0 /\ p[1] <= w /\ p[2] >= 0 /\ p[2] <= h

\* The points of the move_to and line_to commands of a path.
PathPoints(d) == {d[n].p : n \in {q \in 1..Len(d) : d[q].op # "Z"}}

\* C19 (as claimed): extraction does not end in an arithmetic overflow; once
\* the extent is computed, width, height and the two offsets are the exact
\* differences (no wrap-around); every vertex of every sector is flipped with
\* the extent of the whole map, y' = max_y - (y - min_y); and every point of a
\* path and every end of a stroke lies in the box [0, width] x [0, height].
C19_NoOverflow ==
    LET lo_x == CHOOSE a \in UsedX : \A b \in UsedX : a <= b
        hi_x == CHOOSE a \in UsedX : \A b \in UsedX : a >= b
        lo_y == CHOOSE a \in UsedY : \A b \in UsedY : a <= b
        hi_y == CHOOSE a \in UsedY : \A b \in UsedY : a >= b
    IN  /\ ~(pc = "panicked" /\ panic.kind = "overflow")
        /\ pc \notin {"extract", "panicked"} =>
              /\ width(map) = hi_x - lo_x
              /\ height(map) = hi_y - lo_y
              /\ offset_x(map) = 0 - lo_x
              /\ offset_y(map) = 0 - lo_y
              /\ \A s \in 1..Len(sectors) : \A n \in 1..Len(sectors[s].lines) :
                    LET line == sectors[s].lines[n]
                    IN  /\ line.v1.y = hi_y - (map.vertexes[line.linedef.vertex_begin + 1].y - lo_y)
                        /\ line.v2.y = hi_y - (map.vertexes[line.linedef.vertex_end + 1].y - lo_y)
              /\ \A p \in PathPoints(data) : InBox(p, hi_x - lo_x, hi_y - lo_y)
              /\ \A s \in 1..Len(doc) :
                    \A p \in PathPoints(doc[s]) : InBox(p, hi_x - lo_x, hi_y - lo_y)
              /\ \A n \in 1..Len(strokes) :
                    /\ InBox(strokes[n].p1, hi_x - lo_x, hi_y - lo_y)
                    /\ InBox(strokes[n].p2, hi_x - lo_x, hi_y - lo_y)

\* What holds of the code: C19_NoOverflow for the maps whose extent fits,
\* that is -32767 <= min and max - min <= 32767 on both axes.
NoOverflowWhenExtentFits == ExtentOverflows(map) \/ C19_NoOverflow

-----------------------------------------------------------------------------
(* Properties of the "svg" command.                                        *)

\* Every index stored in the map references an element that exists: the
\* vertexes of its linedefs, their sidedefs (a negative side is no side), and
\* the sectors of those sidedefs.
AllIndicesInBounds(m) ==
    /\ ~VertexIndexPanics(m)
    /\ \A n \in 1..Len(m.linedefs) :
          \A side \in {m.linedefs[n].sidedef_right, m.linedefs[n].sidedef_left} :
              side >= 0 =>
                  /\ side < Len(m.sidedefs)
                  /\ m.sidedefs[side + 1].sector \in 0..(Len(m.sectors) - 1)

\* The map has a linedef and a sector.
NotEmpty(m) == Len(m.linedefs) > 0 /\ Len(m.sectors) > 0

\* Extraction of a map that is Good ends in no panic, and when the command has
\* ended for every map of the WAD, each map is saved unless it comes after a
\* map that is not Good.
Completes(Good(_)) ==
    /\ pc = "panicked" /\ panic.kind # "expect" => ~Good(map)
    /\ pc \in {"done", "panicked"} /\ params = <<>> =>
          \A n \in 1..Len(maps) :
              (\A k \in 1..n : Good(maps[k])) => maps[n].name \in Range(saved)

\* C22 (as claimed): the extraction of a map of the WAD with all referenced
\* indices in bounds completes without aborting, also for a map with no
\* linedefs and for a map with linedefs but no sectors; and when every map is
\* extracted, one such map does not keep the maps after it from being saved.
C22_ExtractionCompletes == Completes(AllIndicesInBounds)

\* What holds of the code: C22_ExtractionCompletes for the maps that have at
\* least one linedef and at least one sector.
CompletesWhenNotEmpty == Completes(LAMBDA m : AllIndicesInBounds(m) /\ NotEmpty(m))

====
